---- MODULE Spec2Model ----
(***************************************************************************)
(* A model of django-chat-sdk in several specifications.                   *)
(*                                                                         *)
(* Spec: one conversational turn, ChatService.stream_message               *)
(* (services/chat_service.py) driving the middleware pipeline              *)
(* (middleware/pipeline.py), the guardrails middleware                      *)
(* (middleware/guardrails_middleware.py), the tool registry                *)
(* (services/tool_registry.py) and the message converter                   *)
(* (services/message_converter.py).                                        *)
(*                                                                         *)
(* PipelineSpec: a caller of MiddlewarePipeline (middleware/pipeline.py)   *)
(* that runs the hooks of every middleware list and consumes the stream    *)
(* wrap_stream builds, chunk by chunk.                                     *)
(*                                                                         *)
(* LimiterSpec: concurrent tasks calling before_generate and               *)
(* after_generate of one RateLimitMiddleware                               *)
(* (middleware/rate_limit_middleware.py) while the clock advances.         *)
(*                                                                         *)
(* ConsumerSpec: ChatSDKConsumer.handle_chat_message                        *)
(* (consumers/chat_consumer.py) consuming stream_message event by event    *)
(* and relaying it to the client, while handle_stop may set the stop flag. *)
(*                                                                         *)
(* ConverterSpec: MessageConverter (services/message_converter.py) applied  *)
(* to one stored message, and from_model_response applied to the assistant *)
(* message it gave.                                                        *)
(*                                                                         *)
(* OpenAISpec and AnthropicSpec: OpenAIProvider.stream                     *)
(* (providers/openai_provider.py) and AnthropicProvider.stream             *)
(* (providers/anthropic_provider.py) consuming the vendor's stream event   *)
(* by event.                                                               *)
(*                                                                         *)
(* ConstructSpec and SettingsSpec: the start-up code: the constructors and *)
(* _get_client of the built-in providers (providers/*.py), and             *)
(* MiddlewarePipeline.from_settings (middleware/pipeline.py) and           *)
(* ProviderRegistry.auto_discover (providers/registry.py) reading the      *)
(* class references of the settings.                                       *)
(*                                                                         *)
(* Each specification leaves the variables of the others at rest.          *)
(*                                                                         *)
(* stream_message is an async generator.  Every action below runs the      *)
(* generator from one suspension point (a yield, or an await on a          *)
(* collaborator whose answer is an input) to the next one; pc names the    *)
(* suspension point.  The events yielded so far are kept in `events`.      *)
(*                                                                         *)
(* Python values are tagged records [t, v]: t = "dict" (a JSON object      *)
(* labelled v), "str" (plain text v), "json" (a str holding the JSON text  *)
(* of the object labelled v) and "none".  Text is a sequence of tokens, so *)
(* that += is \o.                                                          *)
(***************************************************************************)
EXTENDS Integers, Sequences, FiniteSets, TLC

VARIABLES
    cfg,               \* the arguments of the call and the injected collaborators
    pc,                \* suspension point of the generator
    events,            \* StreamEvents yielded so far, as to_dict() renders them
    params,            \* the params dict of the turn
    step,              \* the step counter of the agent loop
    step_text,         \* text accumulated in the current step
    tool_calls,        \* tool_call chunks collected in the current step
    tc_idx,            \* position of the dispatch loop in tool_calls
    step_usage,        \* usage of the current step (the last usage chunk)
    total_usage,       \* usage accumulated over the turn
    accumulated_parts, \* parts of the assistant message being built
    db,                \* messages persisted in the conversation
    provider_calls,    \* the messages of every provider.stream(...) call
    stream_log,        \* per provider call: the chunks the provider produced, and
                       \* whether the stream is unread, open, ended or raised
    execute_log,       \* every ToolRegistry.execute call: [step, tool_name]
    logged,            \* failures the pipeline caught and logged
    fault,             \* the collaborator failure injected in this turn, if any
    transformed,       \* the messages of every pipeline.transform_params(...) call
    \* MiddlewarePipeline and its caller
    middleware,        \* MiddlewarePipeline._middleware, as the names of the classes
    hook_pc,           \* where the caller of the pipeline stands
    hook_params,       \* the params dict the caller holds
    hook_result,       \* the result of the caller's generation, passed to after_generate
    hook_calls,        \* the hooks invoked by the last pipeline call, in order
    hook_logged,       \* the failures the last pipeline call caught and logged
    django_cache,      \* django.core.cache.cache: the entries stored
    cache_ops,         \* every django_cache.get and django_cache.set made
    requests_made,     \* generations the caller has completed
    wire_calls,        \* every provider call of the caller: the keyword arguments
                       \* the provider received and the params the caller held
    layers,            \* the wrappers wrap_stream nested: per middleware, what it
                       \* received from the stream inside it and its locals
    raw_chunks,        \* the chunks pulled from the raw provider stream
    received,          \* the chunks the caller received from the wrapped stream
    \* RateLimitMiddleware and the tasks calling it
    limits,            \* _rpm and _tpm
    request_tokens,    \* _request_tokens, in sixtieths of a request token
    token_tokens,      \* _token_tokens, in sixtieths of a token
    last_refill,       \* _last_refill, in seconds
    now,               \* time.monotonic(), in seconds
    lock_owner,        \* the task holding _lock, or NoTask
    lock_waiters,      \* the tasks suspended in _lock.acquire(), first come first
    task_pc,           \* per task: its suspension point
    task_usage,        \* per task: prompt_tokens + completion_tokens of its result
    wake_at,           \* per task: the time its asyncio.sleep ends
    calls_made,        \* before_generate calls made so far, by all tasks
    admitted,          \* the times at which before_generate returned
    debited,           \* sum of the total_tokens of the after_generate calls completed
    refill_seen,       \* the last _refill: the elapsed seconds it observed, the
                       \* buckets before it and the buckets after it
    \* ChatSDKConsumer
    consumer_pc,       \* where handle_chat_message stands
    stop_requested,    \* _stop_requested
    taken,             \* events of the turn the `async for` has received
    sent,              \* what send_json has sent to the client
    \* MessageConverter
    conv_pc,           \* which conversions have been applied
    stored,            \* the stored message: role, parts, attachments
    model_messages,    \* to_model_messages([stored])
    rebuilt,           \* from_model_response(...) of the assistant message
    \* provider adapters
    adapter_pc,        \* where stream() of the provider stands
    vendor_events,     \* the chunks or events received from the vendor's stream
    tool_buffer,       \* the locals of stream() that buffer tool calls
    yielded,           \* the chunks stream() has yielded, each with the number of
                       \* vendor events received when it was yielded
    \* start-up: settings loaders and provider constructors
    boot_pc,           \* where the start-up code stands
    declared,          \* what the settings or the caller declare: class references,
                       \* or a provider class and its configuration map
    built,             \* what has been built from it so far
    boot_log           \* what was logged, and the exception that was raised

turnVars == <<cfg, pc, events, params, step, step_text, tool_calls, tc_idx,
              step_usage, total_usage, accumulated_parts, db, provider_calls,
              stream_log, execute_log, logged, fault, transformed>>

pipelineVars == <<middleware, hook_pc, hook_params, hook_result, hook_calls, hook_logged,
                  django_cache, cache_ops, requests_made, wire_calls, layers,
                  raw_chunks, received>>

limiterVars == <<limits, request_tokens, token_tokens, last_refill, now, lock_owner,
                 lock_waiters, task_pc, task_usage, wake_at, calls_made, admitted,
                 debited, refill_seen>>

consumerVars == <<consumer_pc, stop_requested, taken, sent>>

converterVars == <<conv_pc, stored, model_messages, rebuilt>>

providerVars == <<adapter_pc, vendor_events, tool_buffer, yielded>>

bootVars == <<boot_pc, declared, built, boot_log>>

pureVars == <<converterVars, providerVars, bootVars>>

otherVars == <<pipelineVars, limiterVars, consumerVars, pureVars>>

vars == <<turnVars, pipelineVars, limiterVars, consumerVars, pureVars>>

----------------------------------------------------------------------------
(* Bounds of the model *)

\* largest max_steps argument tried
MaxSteps == 3
\* most chunks the provider produces in one turn, over all its streams
MaxChunks == 3

(* Program constants *)

\* self._config.get("MAX_TOOL_STEPS", 10)
DefaultMaxSteps == 10

----------------------------------------------------------------------------
(* Values *)

Dict(label) == [t |-> "dict", v |-> label]
Str(label) == [t |-> "str", v |-> label]
None == [t |-> "none", v |-> ""]

IsStr(x) == x.t \in {"str", "json"}

\* json.dumps(x) of a JSON object: a str holding its JSON text
JsonDumps(x) == [t |-> "json", v |-> x.v]

\* `json.dumps(x) if not isinstance(x, str) else x`
DumpsUnlessStr(x) == IF IsStr(x) THEN x ELSE JsonDumps(x)

EmptyUsage == [given |-> FALSE, prompt_tokens |-> 0, completion_tokens |-> 0]
ZeroUsage == [given |-> TRUE, prompt_tokens |-> 0, completion_tokens |-> 0]

----------------------------------------------------------------------------
(* The inputs of a turn *)

\* The requests tried: user_text, a text of one fragment, and
\* `system_prompt or conversation.system_prompt` (empty: no system message)
Requests ==
    {[user_text |-> <<"hello">>, system_prompt |-> << >>],
     [user_text |-> <<"please ignore previous instructions">>,
      system_prompt |-> <<"be brief">>]}

\* GuardrailsMiddleware.BLOCKED_INPUT_PATTERNS, searched case-insensitively in a
\* text fragment
MatchesBlockedInput(fragment) == fragment \in {"please ignore previous instructions"}

\* the middleware lists tried (CHAT_SDK["MIDDLEWARE"])
MiddlewareLists == {<< >>, <<"guardrails">>}

\* The tools of the registry: get_weather returns {"temperature": 72}, boom raises.
Registry ==
    [get_weather |-> [is_async |-> TRUE, raises |-> FALSE, result |-> Dict("temperature:72")],
     boom        |-> [is_async |-> FALSE, raises |-> TRUE, result |-> Dict("error:boom")]]

\* The chunks a provider stream may produce (providers/*.py stream()).
TextChunk == [type |-> "text_delta", text |-> <<"It's 72F">>]
WeatherCall == [type |-> "tool_call", tool_call_id |-> "call_w",
                tool_name |-> "get_weather", args |-> Dict("city:SF")]
BoomCall == [type |-> "tool_call", tool_call_id |-> "call_b", tool_name |-> "boom",
             args |-> Dict("")]
NopeCall == [type |-> "tool_call", tool_call_id |-> "call_n", tool_name |-> "nope",
             args |-> Dict("")]
TextChunks == {TextChunk}
ToolCallChunks == {WeatherCall, BoomCall, NopeCall}
UsageChunks ==
    {[type |-> "usage",
      usage |-> [given |-> TRUE, prompt_tokens |-> 2, completion_tokens |-> 1]]}
Chunks == TextChunks \cup ToolCallChunks \cup UsageChunks

MessageId == "msg-1"
ModelId == "gpt-4o"

----------------------------------------------------------------------------
(* StreamEvent constructors, rendered as to_dict() *)

EvStreamStart(message_id) == [type |-> "stream_start", message_id |-> message_id]
EvTextDelta(text) == [type |-> "text_delta", text |-> text]
EvToolCallStart(id, name) ==
    [type |-> "tool_call_start", tool_call_id |-> id, tool_name |-> name]
EvToolInputReady(id, input) ==
    [type |-> "tool_input_ready", tool_call_id |-> id, input |-> input]
\* mutant: tool_output is built without the id of the call
EvToolOutputNoId(id, output) ==
    [type |-> "tool_output", tool_call_id |-> "", output |-> output]
EvToolOutput(id, output) ==
    [type |-> "tool_output", tool_call_id |-> id, output |-> output]
\* mutant: the event numbers the steps from 1
EvStepStartOneBased(s) == [type |-> "step_start", step |-> s + 1]
EvStepStart(s) == [type |-> "step_start", step |-> s]
\* mutant: step_finish is built after `step += 1`
EvStepFinishAfterIncrement(s, reason, usage) ==
    [type |-> "step_finish", step |-> s + 1, finish_reason |-> reason, usage |-> usage]
EvStepFinish(s, reason, usage) ==
    [type |-> "step_finish", step |-> s, finish_reason |-> reason, usage |-> usage]
EvStreamEnd(reason, usage) ==
    [type |-> "stream_end", finish_reason |-> reason, usage |-> usage]
EvError(message) == [type |-> "error", message |-> message]

----------------------------------------------------------------------------
(* MessageConverter (services/message_converter.py) *)

RECURSIVE ExtractTextFrom(_, _)
\* _extract_text: "\n".join of the text of the text parts, from part i on
ExtractTextFrom(parts, i) ==
    IF i > Len(parts) THEN <<[first |-> TRUE]>>
    ELSE LET rest == ExtractTextFrom(parts, i + 1)
         IN IF parts[i].type = "text"
            THEN IF rest[1].first
                 THEN <<[first |-> FALSE, text |-> parts[i].text]>>
                 ELSE <<[first |-> FALSE, text |-> parts[i].text \o <<"\n">> \o rest[1].text]>>
            ELSE rest

ExtractText(parts) ==
    LET r == ExtractTextFrom(parts, 1) IN IF r[1].first THEN << >> ELSE r[1].text

PartsOfType(parts, type) == SelectSeq(parts, LAMBDA p : p.type = type)

\* _build_user_content: plain text without attachments; with attachments a block
\* list only when more than one block results
BuildUserContent(parts, attachments) ==
    LET text == ExtractText(parts)
        textBlocks == IF text # << >> THEN <<[type |-> "text", text |-> text]>> ELSE << >>
        images == SelectSeq(attachments, LAMBDA a : a.is_image)
        imageBlocks == [i \in 1..Len(images) |->
                            [type |-> "image_url", image_url |-> images[i].url]]
        content == textBlocks \o imageBlocks
    IN IF attachments = << >> THEN Str(text)
       ELSE IF Len(content) > 1 THEN [t |-> "blocks", v |-> content] ELSE Str(text)

WireToolCall(tc) ==
    [id |-> tc.tool_call_id, type |-> "function",
     function |-> [name |-> tc.tool_name, arguments |-> DumpsUnlessStr(tc.args)]]

\* _build_assistant_message: no message without text and tool calls; content is
\* None when there are only tool calls
BuildAssistantMessage(parts) ==
    LET text == ExtractText(parts)
        calls == PartsOfType(parts, "tool_call")
        wire == [i \in 1..Len(calls) |-> WireToolCall(calls[i])]
    IN IF text = << >> /\ calls = << >> THEN << >>
       ELSE IF calls = << >> THEN <<[role |-> "assistant", content |-> Str(text)]>>
       ELSE <<[role |-> "assistant",
               content |-> IF text # << >> THEN Str(text) ELSE None,
               tool_calls |-> wire]>>

ToolMessage(part) ==
    [role |-> "tool", tool_call_id |-> part.tool_call_id,
     content |-> DumpsUnlessStr(part.result)]

\* the tool-role messages synthesized from the tool_result parts, in part order
ToolResultMessages(parts) ==
    LET results == PartsOfType(parts, "tool_result")
    IN [i \in 1..Len(results) |-> ToolMessage(results[i])]

\* to_model_messages, one stored message
ConvertMessage(msg) ==
    CASE msg.role = "system" ->
            IF ExtractText(msg.parts) # << >>
            THEN <<[role |-> "system", content |-> Str(ExtractText(msg.parts))]>>
            ELSE << >>
      [] msg.role = "user" ->
            LET content == BuildUserContent(msg.parts, msg.attachments)
            IN IF content = Str(<< >>) THEN << >>
               ELSE <<[role |-> "user", content |-> content]>>
      [] msg.role = "assistant" ->
            BuildAssistantMessage(msg.parts) \o ToolResultMessages(msg.parts)
      [] msg.role = "tool" -> ToolResultMessages(msg.parts)
      [] OTHER -> << >>

RECURSIVE ToModelMessagesFrom(_, _)
ToModelMessagesFrom(messages, i) ==
    IF i > Len(messages) THEN << >>
    ELSE ConvertMessage(messages[i]) \o ToModelMessagesFrom(messages, i + 1)

ToModelMessages(messages) == ToModelMessagesFrom(messages, 1)

\* from_model_response, lines 163-168: `arguments` that is a str holding a JSON text
\* is decoded; any other str makes json.loads raise and is kept
LoadsIfJson(x) == IF x.t = "json" THEN Dict(x.v) ELSE x

\* from_model_response: a text part for a content that is not empty, then one
\* tool_call part per entry of tool_calls (`calls`; << >> stands for None as well)
FromModelResponse(role, content, calls, metadata) ==
    [role |-> role,
     parts |-> (IF content.t = "str" /\ content.v # << >>
                THEN <<[type |-> "text", text |-> content.v]>> ELSE << >>)
               \o [i \in 1..Len(calls) |->
                      [type |-> "tool_call",
                       tool_call_id |-> calls[i].id,
                       tool_name |-> calls[i].function.name,
                       args |-> LoadsIfJson(calls[i].function.arguments)]],
     metadata |-> IF metadata = None THEN Dict("") ELSE metadata]

----------------------------------------------------------------------------
(* ToolRegistry (services/tool_registry.py) *)

\* mutant: the exception of the executor is not caught
ToolRegistryExecutePropagates(tool_name, arguments) ==
    IF tool_name \notin DOMAIN Registry
    THEN [raised |-> TRUE, message |-> "KeyError: tool not found in registry",
          value |-> None]
    ELSE IF Registry[tool_name].raises
         THEN [raised |-> TRUE, message |-> "boom", value |-> None]
         ELSE [raised |-> FALSE, message |-> "", value |-> Registry[tool_name].result]

\* execute: KeyError for an unregistered name; a raising executor gives
\* {"error": str(e)}; otherwise the executor's result
ToolRegistryExecute(tool_name, arguments) ==
    IF tool_name \notin DOMAIN Registry
    THEN [raised |-> TRUE, message |-> "KeyError: tool not found in registry",
          value |-> None]
    ELSE IF Registry[tool_name].raises
         THEN [raised |-> FALSE, message |-> "", value |-> Dict("error:boom")]
         ELSE [raised |-> FALSE, message |-> "", value |-> Registry[tool_name].result]

HasTools == DOMAIN Registry # {}

----------------------------------------------------------------------------
(* Middleware (middleware/*.py) *)

\* Python dicts as functions: d[k] = v and d.pop(k, None)
SetKey(d, k, v) == [x \in DOMAIN d \cup {k} |-> IF x = k THEN v ELSE d[x]]
PopKey(d, k) == [x \in DOMAIN d \ {k} |-> d[x]]
HasKey(d, k) == k \in DOMAIN d

\* The middleware classes: LoggingMiddleware, GuardrailsMiddleware, CacheMiddleware
\* by their `name`, and "raising", a BaseMiddleware subclass whose transform_params,
\* before_generate and after_generate raise and whose wrap_stream may raise while
\* it is consumed.
MiddlewareNames == {"logging", "guardrails", "cache", "raising"}

\* GuardrailsMiddleware.transform_params: ContentBlockedError when the str
\* content of a user-role message matches a blocked-input pattern
GuardrailsBlocks(p) ==
    \E i \in 1..Len(p.messages) :
        /\ p.messages[i].role = "user"
        /\ p.messages[i].content.t = "str"
        /\ \E k \in 1..Len(p.messages[i].content.v) :
               MatchesBlockedInput(p.messages[i].content.v[k])

\* CacheMiddleware._make_key: the prefix and a digest of model_id and messages
MakeKey(p) == [prefix |-> "chat_sdk:llm:", digest |-> <<p.model_id, p.messages>>]

\* django_cache.get(key): the stored content, or None
CacheGet(store, key) ==
    IF \E e \in store : e.key = key
    THEN (CHOOSE e \in store : e.key = key).content
    ELSE None

\* CacheMiddleware.cache_timeout, in seconds
CacheTimeout == 3600

\* django_cache.set(key, content, timeout)
CacheSet(store, key, content, timeout) ==
    {e \in store : e.key # key}
        \cup {[key |-> key, content |-> content, timeout |-> timeout]}

\* a cache operation as cache_ops records it, with the `tools` of the params
CacheOp(op, key, p) == [op |-> op, key |-> key, tools |-> p.tools]

\* mutant: the tools of the request are not looked at
CacheTransformParamsIgnoresTools(p, store) ==
    LET key == MakeKey(p)
        cached == CacheGet(store, key)
    IN [raised |-> FALSE,
        params |-> IF cached # None THEN SetKey(p, "_cache_hit", cached)
                   ELSE SetKey(p, "_cache_key", key),
        ops |-> <<CacheOp("get", key, p)>>]

\* CacheMiddleware.transform_params: nothing for a request with tools; otherwise
\* the lookup, and _cache_hit or _cache_key stashed in params
CacheTransformParams(p, store) ==
    IF p.tools
    THEN [raised |-> FALSE, params |-> p, ops |-> << >>]
    ELSE LET key == MakeKey(p)
             cached == CacheGet(store, key)
         IN [raised |-> FALSE,
             params |-> IF cached # None THEN SetKey(p, "_cache_hit", cached)
                        ELSE SetKey(p, "_cache_key", key),
             ops |-> <<CacheOp("get", key, p)>>]

\* mutant: a result with tool calls is stored as well
CacheAfterGenerateStoresToolCalls(p, result, store) ==
    LET cache_key == IF HasKey(p, "_cache_key") THEN p["_cache_key"] ELSE None
        popped == PopKey(PopKey(p, "_cache_key"), "_cache_hit")
        writes == /\ cache_key # None
                  /\ result # None
                  /\ result.content # << >>
    IN [raised |-> FALSE, params |-> popped,
        store |-> IF writes
                  THEN CacheSet(store, cache_key, Str(result.content), CacheTimeout)
                  ELSE store,
        ops |-> IF writes THEN <<CacheOp("set", cache_key, p)>> ELSE << >>]

\* CacheMiddleware.after_generate: both stashes are popped; the content of a result
\* without tool calls is stored under the popped key
CacheAfterGenerate(p, result, store) ==
    LET cache_key == IF HasKey(p, "_cache_key") THEN p["_cache_key"] ELSE None
        popped == PopKey(PopKey(p, "_cache_key"), "_cache_hit")
        writes == /\ cache_key # None
                  /\ result # None
                  /\ result.content # << >>
                  /\ result.tool_calls = << >>
    IN [raised |-> FALSE, params |-> popped,
        store |-> IF writes
                  THEN CacheSet(store, cache_key, Str(result.content), CacheTimeout)
                  ELSE store,
        ops |-> IF writes THEN <<CacheOp("set", cache_key, p)>> ELSE << >>]

\* one middleware's transform_params: [raised, params, ops]
MwTransformParams(name, p, store) ==
    CASE name = "guardrails" ->
            [raised |-> GuardrailsBlocks(p), params |-> p, ops |-> << >>]
      [] name = "cache" -> CacheTransformParams(p, store)
      [] name = "raising" -> [raised |-> TRUE, params |-> p, ops |-> << >>]
      [] OTHER -> [raised |-> FALSE, params |-> p, ops |-> << >>]

\* one middleware's before_generate: [raised, params]; LoggingMiddleware stores
\* _log_start_time in params
MwBeforeGenerate(name, p) ==
    CASE name = "logging" ->
            [raised |-> FALSE, params |-> SetKey(p, "_log_start_time", "monotonic")]
      [] name = "raising" -> [raised |-> TRUE, params |-> p]
      [] OTHER -> [raised |-> FALSE, params |-> p]

\* one middleware's after_generate: [raised, params, store, ops]; LoggingMiddleware
\* pops _log_start_time
MwAfterGenerate(name, p, result, store) ==
    CASE name = "logging" ->
            [raised |-> FALSE, params |-> PopKey(p, "_log_start_time"),
             store |-> store, ops |-> << >>]
      [] name = "cache" -> CacheAfterGenerate(p, result, store)
      [] name = "raising" ->
            [raised |-> TRUE, params |-> p, store |-> store, ops |-> << >>]
      [] OTHER -> [raised |-> FALSE, params |-> p, store |-> store, ops |-> << >>]

\* a hook invocation as hook_calls records it: the middleware, the hook, the params
\* it was given and whether it raised
HookCall(name, hook, p, raised) ==
    [middleware |-> name, hook |-> hook, params |-> p, raised |-> raised]

\* a line of logger.error(f"Middleware {mw.name} {hook} failed: {e}")
LogLine(name, hook) == [middleware |-> name, hook |-> hook]

\* the state of a pipeline call: the params and the cache as they stand, the hooks
\* invoked, the failures logged, the cache operations made and whether an exception
\* has left the loop
PipelineCall(p, store) ==
    [params |-> p, store |-> store, calls |-> << >>, logged |-> << >>,
     ops |-> << >>, raised |-> FALSE]

\* mutant: no except clause, the failure of a hook leaves the pipeline call
Propagated(acc, name, hook, r) ==
    IF r.raised THEN [acc EXCEPT !.raised = TRUE]
    ELSE [acc EXCEPT !.params = r.params]

\* `except Exception as e: logger.error(...)`: the failure is logged and the loop
\* goes on with the params as they were; without failure, with what the hook left
Caught(acc, name, hook, r) ==
    IF r.raised THEN [acc EXCEPT !.logged = Append(@, LogLine(name, hook))]
    ELSE [acc EXCEPT !.params = r.params]

Invoked(acc, name, hook, r) ==
    [acc EXCEPT !.calls = Append(@, HookCall(name, hook, acc.params, r.raised))]

Reversed(seq) == [i \in 1..Len(seq) |-> seq[Len(seq) + 1 - i]]

\* mutant: after_generate runs first to last
AfterGenerateOrderForward(mws) == mws

\* mutant: wrap_stream wraps first to last, the first middleware wraps the raw stream
WrapOrderForward(mws) == mws

\* `for mw in self._middleware` and `for mw in reversed(self._middleware)`
TransformParamsOrder(mws) == mws
BeforeGenerateOrder(mws) == mws
AfterGenerateOrder(mws) == Reversed(mws)
\* wrap_stream wraps in reversed order: the last middleware wraps the raw stream
WrapOrder(mws) == Reversed(mws)

RECURSIVE PipelineTransformParamsFrom(_, _, _)
\* MiddlewarePipeline.transform_params, from the i-th middleware of the order on
PipelineTransformParamsFrom(order, i, acc) ==
    IF i > Len(order) \/ acc.raised THEN acc
    ELSE LET r == MwTransformParams(order[i], acc.params, acc.store)
             called == [Invoked(acc, order[i], "transform_params", r)
                            EXCEPT !.ops = @ \o r.ops]
         IN PipelineTransformParamsFrom(order, i + 1,
                Caught(called, order[i], "transform_params", r))

PipelineTransformParams(mws, p, store) ==
    PipelineTransformParamsFrom(TransformParamsOrder(mws), 1, PipelineCall(p, store))

RECURSIVE PipelineBeforeGenerateFrom(_, _, _)
\* MiddlewarePipeline.before_generate
PipelineBeforeGenerateFrom(order, i, acc) ==
    IF i > Len(order) \/ acc.raised THEN acc
    ELSE LET r == MwBeforeGenerate(order[i], acc.params)
         IN PipelineBeforeGenerateFrom(order, i + 1,
                Caught(Invoked(acc, order[i], "before_generate", r),
                       order[i], "before_generate", r))

PipelineBeforeGenerate(mws, p, store) ==
    PipelineBeforeGenerateFrom(BeforeGenerateOrder(mws), 1, PipelineCall(p, store))

RECURSIVE PipelineAfterGenerateFrom(_, _, _, _)
\* MiddlewarePipeline.after_generate
PipelineAfterGenerateFrom(order, i, result, acc) ==
    IF i > Len(order) \/ acc.raised THEN acc
    ELSE LET r == MwAfterGenerate(order[i], acc.params, result, acc.store)
             called == [Invoked(acc, order[i], "after_generate", r)
                            EXCEPT !.ops = @ \o r.ops, !.store = r.store]
         IN PipelineAfterGenerateFrom(order, i + 1, result,
                Caught(called, order[i], "after_generate", r))

PipelineAfterGenerate(mws, p, result, store) ==
    PipelineAfterGenerateFrom(AfterGenerateOrder(mws), 1, result, PipelineCall(p, store))

----------------------------------------------------------------------------
(* The variables a specification leaves at rest *)

\* no task holds the lock (tasks are numbered from 1)
NoTask == 0

TurnAtRest ==
    /\ cfg = [max_steps |-> 0, awaitable_wrap |-> FALSE, middleware |-> << >>,
              user_text |-> << >>, system_prompt |-> << >>]
    /\ pc = "rest"
    /\ events = << >>
    /\ params = [messages |-> << >>, model_id |-> ModelId, tools |-> FALSE]
    /\ step = 0
    /\ step_text = << >>
    /\ tool_calls = << >>
    /\ tc_idx = 0
    /\ step_usage = EmptyUsage
    /\ total_usage = ZeroUsage
    /\ accumulated_parts = << >>
    /\ db = << >>
    /\ provider_calls = << >>
    /\ stream_log = << >>
    /\ execute_log = << >>
    /\ logged = << >>
    /\ fault = "none"
    /\ transformed = << >>

PipelineAtRest ==
    /\ middleware = << >>
    /\ hook_pc = "rest"
    /\ hook_params = [messages |-> << >>, model_id |-> ModelId, tools |-> FALSE]
    /\ hook_result = None
    /\ hook_calls = << >>
    /\ hook_logged = << >>
    /\ django_cache = {}
    /\ cache_ops = << >>
    /\ requests_made = 0
    /\ wire_calls = << >>
    /\ layers = << >>
    /\ raw_chunks = << >>
    /\ received = << >>

LimiterAtRest ==
    /\ limits = [rpm |-> 0, tpm |-> 0]
    /\ request_tokens = 0
    /\ token_tokens = 0
    /\ last_refill = 0
    /\ now = 0
    /\ lock_owner = NoTask
    /\ lock_waiters = << >>
    /\ task_pc = << >>
    /\ task_usage = << >>
    /\ wake_at = << >>
    /\ calls_made = 0
    /\ admitted = << >>
    /\ debited = 0
    /\ refill_seen = << >>

ConsumerAtRest ==
    /\ consumer_pc = "rest"
    /\ stop_requested = FALSE
    /\ taken = 0
    /\ sent = << >>

ConverterAtRest ==
    /\ conv_pc = "rest"
    /\ stored = [role |-> "user", parts |-> << >>, attachments |-> << >>]
    /\ model_messages = << >>
    /\ rebuilt = None

ProviderAtRest ==
    /\ adapter_pc = "rest"
    /\ vendor_events = << >>
    /\ tool_buffer = << >>
    /\ yielded = << >>

BootAtRest ==
    /\ boot_pc = "rest"
    /\ declared = << >>
    /\ built = << >>
    /\ boot_log = << >>

PureAtRest == ConverterAtRest /\ ProviderAtRest /\ BootAtRest

----------------------------------------------------------------------------
(* ChatService (services/chat_service.py) *)

\* max_steps or self._config.get("MAX_TOOL_STEPS", 10); 0 stands for None
EffectiveMaxSteps(arg) == IF arg = 0 THEN DefaultMaxSteps ELSE arg

max_steps == EffectiveMaxSteps(cfg.max_steps)

\* _get_model_messages: the converted history, the system prompt in front, the
\* parts of the running turn as one assistant message behind
GetModelMessages(history, system_prompt, extra_parts) ==
    (IF system_prompt # << >>
     THEN <<[role |-> "system", content |-> Str(system_prompt)]>> ELSE << >>)
    \o ToModelMessages(history)
    \o (IF extra_parts # << >>
        THEN ToModelMessages(<<[role |-> "assistant", parts |-> extra_parts,
                                attachments |-> << >>]>>)
        ELSE << >>)

\* mutant: the whole params dict is handed to the provider
ProviderKwargsWholeParams(p) == p
\* _stream_with_middleware: the keyword arguments of provider.stream(...)
ProviderKwargs(p) == [messages |-> p.messages, model |-> p.model_id, tools |-> p.tools]

AddUsage(total, u) ==
    [given |-> TRUE,
     prompt_tokens |-> total.prompt_tokens + u.prompt_tokens,
     completion_tokens |-> total.completion_tokens + u.completion_tokens]

RECURSIVE ChunksIn(_, _)
ChunksIn(log, i) ==
    IF i > Len(log) THEN 0 ELSE Len(log[i].chunks) + ChunksIn(log, i + 1)
\* chunks the provider has produced in this turn
ChunkCount == ChunksIn(stream_log, 1)

LogChunk(c) == [stream_log EXCEPT ![Len(stream_log)].chunks = Append(@, c)]
LogState(state) == [stream_log EXCEPT ![Len(stream_log)].state = state]

\* mutant: no except clause, the exception leaves the generator
FailsReraises(evs, message) ==
    /\ events' = evs
    /\ pc' = "raised"
\* the except clause of stream_message: one error event, then the generator ends
Fails(evs, message) ==
    /\ events' = Append(evs, EvError(message))
    /\ pc' = "error"

\* the head of `while step < max_steps`, entered with step s: the next step starts,
\* or the loop is left to the code behind it
LoopHead(s) ==
    IF s < max_steps
    THEN /\ events' = Append(events, EvStepStart(s))
         /\ pc' = "step_start"
    ELSE /\ events' = events
         /\ pc' = "step_finish_stop"

Init ==
    /\ \E m \in 0..MaxSteps, a \in BOOLEAN, mws \in MiddlewareLists, r \in Requests :
           cfg = [max_steps |-> m, awaitable_wrap |-> a, middleware |-> mws,
                  user_text |-> r.user_text, system_prompt |-> r.system_prompt]
    /\ pc = "call"
    /\ events = << >>
    /\ params = [messages |-> << >>, model_id |-> ModelId, tools |-> HasTools]
    /\ step = 0
    /\ step_text = << >>
    /\ tool_calls = << >>
    /\ tc_idx = 0
    /\ step_usage = EmptyUsage
    /\ total_usage = ZeroUsage
    /\ accumulated_parts = << >>
    /\ db = << >>
    /\ provider_calls = << >>
    /\ stream_log = << >>
    /\ execute_log = << >>
    /\ logged = << >>
    /\ fault = "none"
    /\ transformed = << >>
    /\ PipelineAtRest
    /\ LimiterAtRest
    /\ ConsumerAtRest
    /\ PureAtRest

\* lines 160-169: the user message is persisted, then stream_start is yielded
SaveUserMessage ==
    /\ pc = "call"
    /\ db' = Append(db, [role |-> "user",
                         parts |-> <<[type |-> "text", text |-> cfg.user_text]>>,
                         attachments |-> << >>])
    /\ events' = Append(events, EvStreamStart(MessageId))
    /\ pc' = "stream_start"
    /\ UNCHANGED <<otherVars, transformed, cfg, params, step, step_text, tool_calls, tc_idx, step_usage,
                   total_usage, accumulated_parts, provider_calls, stream_log,
                   execute_log, logged, fault>>

\* lines 164-166 raise: outside the try, the generator raises to its consumer
SaveUserMessageFails ==
    /\ pc = "call"
    /\ fault' = "save_user"
    /\ pc' = "raised"
    /\ UNCHANGED <<otherVars, transformed, cfg, events, params, step, step_text, tool_calls, tc_idx,
                   step_usage, total_usage, accumulated_parts, db, provider_calls,
                   stream_log, execute_log, logged>>

\* lines 171-190: messages, params, transform_params, the loop is entered
BuildParams ==
    /\ pc = "stream_start"
    /\ LET messages == GetModelMessages(db, cfg.system_prompt, << >>)
           p == [messages |-> messages, model_id |-> ModelId, tools |-> HasTools]
           r == PipelineTransformParams(cfg.middleware, p, django_cache)
       IN /\ params' = r.params
          /\ logged' = logged \o r.logged
          /\ transformed' = Append(transformed, p.messages)
    /\ step' = 0
    /\ accumulated_parts' = << >>
    /\ total_usage' = ZeroUsage
    /\ LoopHead(0)
    /\ UNCHANGED <<otherVars, cfg, step_text, tool_calls, tc_idx, step_usage, db,
                   provider_calls, stream_log, execute_log, fault>>

\* line 173 raises (reading the history)
BuildParamsFails ==
    /\ pc = "stream_start"
    /\ fault' = "history"
    /\ Fails(events, "history unavailable")
    /\ UNCHANGED <<otherVars, transformed, cfg, params, step, step_text, tool_calls, tc_idx, step_usage,
                   total_usage, accumulated_parts, db, provider_calls, stream_log,
                   execute_log, logged>>

\* lines 193-197 and 406-412: the step's locals are reset, provider.stream(...) is
\* called and the result of pipeline.wrap_stream(...) is awaited.  wrap_stream of
\* this repository's MiddlewarePipeline is an async generator function
\* (pipeline.py:65-83): awaiting what it returns raises TypeError.  A pipeline
\* passed to ChatService(middleware_pipeline=...) may have a coroutine wrap_stream.
OpenStream ==
    /\ pc = "step_start"
    /\ step_text' = << >>
    /\ tool_calls' = << >>
    /\ step_usage' = EmptyUsage
    /\ provider_calls' = Append(provider_calls, ProviderKwargs(params).messages)
    /\ stream_log' = Append(stream_log,
            [chunks |-> << >>,
             state |-> IF cfg.awaitable_wrap THEN "open" ELSE "unread"])
    /\ IF cfg.awaitable_wrap
       THEN /\ pc' = "streaming"
            /\ events' = events
       ELSE Fails(events, "TypeError: object async_generator can't be used in 'await' expression")
    /\ UNCHANGED <<otherVars, transformed, cfg, params, step, tc_idx, total_usage, accumulated_parts, db,
                   execute_log, logged, fault>>

\* lines 198-201: a text_delta chunk
TextDelta ==
    /\ pc = "streaming"
    /\ ChunkCount < MaxChunks
    /\ \E c \in TextChunks :
        /\ stream_log' = LogChunk(c)
        /\ step_text' = step_text \o c.text
        /\ events' = Append(events, EvTextDelta(c.text))
    /\ UNCHANGED <<otherVars, transformed, cfg, pc, params, step, tool_calls, tc_idx, step_usage,
                   total_usage, accumulated_parts, db, provider_calls, execute_log,
                   logged, fault>>

\* lines 203-208: a tool_call chunk, up to the yield of tool_call_start
ToolCall ==
    /\ pc = "streaming"
    /\ ChunkCount < MaxChunks
    /\ \E c \in ToolCallChunks :
        /\ stream_log' = LogChunk(c)
        /\ tool_calls' = Append(tool_calls, c)
        /\ events' = Append(events, EvToolCallStart(c.tool_call_id, c.tool_name))
    /\ pc' = "tool_call_start"
    /\ UNCHANGED <<otherVars, transformed, cfg, params, step, step_text, tc_idx, step_usage, total_usage,
                   accumulated_parts, db, provider_calls, execute_log, logged, fault>>

\* lines 209-212: tool_input_ready of the chunk just announced
ToolInputReady ==
    /\ pc = "tool_call_start"
    /\ LET c == tool_calls[Len(tool_calls)]
       IN events' = Append(events, EvToolInputReady(c.tool_call_id, c.args))
    /\ pc' = "streaming"
    /\ UNCHANGED <<otherVars, transformed, cfg, params, step, step_text, tool_calls, tc_idx, step_usage,
                   total_usage, accumulated_parts, db, provider_calls, stream_log,
                   execute_log, logged, fault>>

\* lines 214-217: a usage chunk; nothing is yielded
Usage ==
    /\ pc = "streaming"
    /\ ChunkCount < MaxChunks
    /\ \E c \in UsageChunks :
        /\ stream_log' = LogChunk(c)
        /\ step_usage' = c.usage
        /\ total_usage' = AddUsage(total_usage, c.usage)
    /\ UNCHANGED <<otherVars, transformed, cfg, pc, events, params, step, step_text, tool_calls, tc_idx,
                   accumulated_parts, db, provider_calls, execute_log, logged, fault>>

\* the provider stream (or a wrapper around it) raises while it is consumed
StreamFails ==
    /\ pc = "streaming"
    /\ fault' = "provider"
    /\ stream_log' = LogState("raised")
    /\ Fails(events, "provider request failed")
    /\ UNCHANGED <<otherVars, transformed, cfg, params, step, step_text, tool_calls, tc_idx, step_usage,
                   total_usage, accumulated_parts, db, provider_calls, execute_log,
                   logged>>

\* mutant: tool calls are dispatched on the last allowed step as well
MayDispatchOnLastStep(calls, s, max) == calls # << >> /\ s < max
\* line 226: tool calls are dispatched unless this is the last allowed step
MayDispatch(calls, s, max) == calls # << >> /\ s < max - 1

\* lines 222-223: the step's text, when there is any, becomes a text part
WithTextPart(parts, text) ==
    IF text # << >> THEN Append(parts, [type |-> "text", text |-> text]) ELSE parts

ToolCallPart(tc) ==
    [type |-> "tool_call", tool_call_id |-> tc.tool_call_id,
     tool_name |-> tc.tool_name, args |-> tc.args]

\* mutant: the id is read under the wrong key and defaults to ""
ToolResultPartNoId(tc, result) ==
    [type |-> "tool_result", tool_call_id |-> "",
     tool_name |-> tc.tool_name, result |-> result]

ToolResultPart(tc, result) ==
    [type |-> "tool_result", tool_call_id |-> tc.tool_call_id,
     tool_name |-> tc.tool_name, result |-> result]

\* lines 228-241: the tool_call part of call i is recorded and the tool executed; its
\* output is yielded, or the exception of execute ends the turn
Dispatch(parts, i) ==
    LET tc == tool_calls[i]
        r == ToolRegistryExecute(tc.tool_name, tc.args)
    IN /\ accumulated_parts' = Append(parts, ToolCallPart(tc))
       /\ execute_log' = Append(execute_log, [step |-> step, tool_name |-> tc.tool_name])
       /\ tc_idx' = i
       /\ IF r.raised
          THEN Fails(events, r.message)
          ELSE /\ events' = Append(events, EvToolOutput(tc.tool_call_id, r.value))
               /\ pc' = "tool_output"

\* lines 219-241: the stream has ended and its tool calls are dispatched
EndOfStreamDispatch ==
    /\ pc = "streaming"
    /\ MayDispatch(tool_calls, step, max_steps)
    /\ Dispatch(WithTextPart(accumulated_parts, step_text), 1)
    /\ stream_log' = LogState("ended")
    /\ UNCHANGED <<otherVars, transformed, cfg, params, step, step_text, tool_calls, step_usage,
                   total_usage, db, provider_calls, logged, fault>>

\* lines 219-226, 259-261: the stream has ended without a tool call to dispatch
EndOfStreamStop ==
    /\ pc = "streaming"
    /\ ~MayDispatch(tool_calls, step, max_steps)
    /\ accumulated_parts' = WithTextPart(accumulated_parts, step_text)
    /\ events' = Append(events, EvStepFinish(step, "stop", step_usage))
    /\ pc' = "step_finish_stop"
    /\ stream_log' = LogState("ended")
    /\ UNCHANGED <<otherVars, transformed, cfg, params, step, step_text, tool_calls, tc_idx, step_usage,
                   total_usage, db, provider_calls, execute_log, logged, fault>>

\* the local `result` when the generator is resumed behind `yield tool_output`
YieldedResult == events[Len(events)].output

\* lines 243-248 and 227-241: the tool_result part is recorded, the next call dispatched
NextToolCall ==
    /\ pc = "tool_output"
    /\ tc_idx < Len(tool_calls)
    /\ Dispatch(Append(accumulated_parts,
                       ToolResultPart(tool_calls[tc_idx], YieldedResult)),
                tc_idx + 1)
    /\ UNCHANGED <<otherVars, transformed, cfg, params, step, step_text, tool_calls, step_usage,
                   total_usage, db, provider_calls, stream_log, logged, fault>>

\* lines 243-255: the last tool_result part is recorded, the messages are rebuilt
\* from the history and the accumulated parts, step_finish is yielded
RebuildMessages ==
    /\ pc = "tool_output"
    /\ tc_idx = Len(tool_calls)
    /\ LET parts == Append(accumulated_parts,
                           ToolResultPart(tool_calls[tc_idx], YieldedResult))
       IN /\ accumulated_parts' = parts
          /\ params' = [params EXCEPT
                            !.messages = GetModelMessages(db, cfg.system_prompt, parts)]
    /\ events' = Append(events, EvStepFinish(step, "tool_calls", step_usage))
    /\ pc' = "step_finish_tool_calls"
    /\ UNCHANGED <<otherVars, transformed, cfg, step, step_text, tool_calls, tc_idx, step_usage,
                   total_usage, db, provider_calls, stream_log, execute_log, logged,
                   fault>>

\* lines 251-253 raise (reading the history)
RebuildMessagesFails ==
    /\ pc = "tool_output"
    /\ tc_idx = Len(tool_calls)
    /\ accumulated_parts' = Append(accumulated_parts,
                                   ToolResultPart(tool_calls[tc_idx], YieldedResult))
    /\ fault' = "rebuild"
    /\ Fails(events, "history unavailable")
    /\ UNCHANGED <<otherVars, transformed, cfg, params, step, step_text, tool_calls, tc_idx, step_usage,
                   total_usage, db, provider_calls, stream_log, execute_log, logged>>

\* lines 256-257, 189-190: the step counter advances and the loop head is passed
NextStep ==
    /\ pc = "step_finish_tool_calls"
    /\ step' = step + 1
    /\ LoopHead(step + 1)
    /\ UNCHANGED <<otherVars, transformed, cfg, params, step_text, tool_calls, tc_idx, step_usage,
                   total_usage, accumulated_parts, db, provider_calls, stream_log,
                   execute_log, logged, fault>>

AssistantMessage(parts, usage, message_id) ==
    [id |-> message_id, role |-> "assistant", parts |-> parts,
     attachments |-> << >>, metadata |-> [usage |-> usage]]

\* lines 263-269: the assistant message is persisted, stream_end is yielded
SaveAssistantMessage ==
    /\ pc = "step_finish_stop"
    /\ db' = Append(db, AssistantMessage(accumulated_parts, total_usage, MessageId))
    /\ events' = Append(events, EvStreamEnd("stop", total_usage))
    /\ pc' = "stream_end"
    /\ UNCHANGED <<otherVars, transformed, cfg, params, step, step_text, tool_calls, tc_idx, step_usage,
                   total_usage, accumulated_parts, provider_calls, stream_log,
                   execute_log, logged, fault>>

\* lines 264-266 raise (writing the assistant message)
SaveAssistantMessageFails ==
    /\ pc = "step_finish_stop"
    /\ fault' = "save_assistant"
    /\ Fails(events, "database unavailable")
    /\ UNCHANGED <<otherVars, transformed, cfg, params, step, step_text, tool_calls, tc_idx, step_usage,
                   total_usage, accumulated_parts, db, provider_calls, stream_log,
                   execute_log, logged>>

Next ==
    \/ SaveUserMessage
    \/ SaveUserMessageFails
    \/ BuildParams
    \/ BuildParamsFails
    \/ OpenStream
    \/ TextDelta
    \/ ToolCall
    \/ ToolInputReady
    \/ Usage
    \/ StreamFails
    \/ EndOfStreamDispatch
    \/ EndOfStreamStop
    \/ NextToolCall
    \/ RebuildMessages
    \/ RebuildMessagesFails
    \/ NextStep
    \/ SaveAssistantMessage
    \/ SaveAssistantMessageFails

Spec == Init /\ [][Next]_vars

\* the generator has ended: with stream_end, with an error event, or by raising
Done == pc \in {"stream_end", "error", "raised"}

----------------------------------------------------------------------------
(* ChatSDKConsumer (consumers/chat_consumer.py) *)

\* the chat_message frames tried: the texts of Requests and an empty text
ChatMessages == Requests \cup {[user_text |-> << >>, system_prompt |-> << >>]}

\* what the consumer sends on its own account
Cancelled == [type |-> "stream_end", finish_reason |-> "cancelled"]
ConsumerError(message) == [type |-> "error", message |-> message]
ConversationUpdated == [type |-> "conversation_updated", conversation_id |-> "conv-new"]

\* A chat_message frame has arrived.  The consumer's ChatService is called without
\* max_steps; its pipeline is the repository's unless the consumer was given another
\* service.
ConsumerInit ==
    /\ \E a \in BOOLEAN, mws \in MiddlewareLists, r \in ChatMessages :
           cfg = [max_steps |-> 0, awaitable_wrap |-> a, middleware |-> mws,
                  user_text |-> r.user_text, system_prompt |-> r.system_prompt]
    /\ pc = "call"
    /\ events = << >>
    /\ params = [messages |-> << >>, model_id |-> ModelId, tools |-> HasTools]
    /\ step = 0
    /\ step_text = << >>
    /\ tool_calls = << >>
    /\ tc_idx = 0
    /\ step_usage = EmptyUsage
    /\ total_usage = ZeroUsage
    /\ accumulated_parts = << >>
    /\ db = << >>
    /\ provider_calls = << >>
    /\ stream_log = << >>
    /\ execute_log = << >>
    /\ logged = << >>
    /\ fault = "none"
    /\ transformed = << >>
    /\ PipelineAtRest
    /\ LimiterAtRest
    /\ PureAtRest
    /\ consumer_pc = "receive"
    /\ stop_requested = FALSE
    /\ taken = 0
    /\ sent = << >>

restOfConsumer == <<pipelineVars, limiterVars, pureVars>>

\* handle_chat_message, lines 105-123: an empty text is answered with an error;
\* otherwise the stop flag is cleared and the loop over stream_message begins
HandleChatMessage ==
    /\ consumer_pc = "receive"
    /\ IF cfg.user_text = << >>
       THEN /\ sent' = Append(sent, ConsumerError("Empty message"))
            /\ consumer_pc' = "returned"
            /\ UNCHANGED stop_requested
       ELSE /\ stop_requested' = FALSE
            /\ consumer_pc' = "streaming"
            /\ UNCHANGED sent
    /\ UNCHANGED <<turnVars, restOfConsumer, taken>>

\* the `async for` has asked for the next event and the generator has not yet
\* yielded it: stream_message runs
Resumed == consumer_pc = "streaming" /\ taken = Len(events)

\* stream_message runs to its next suspension point
GeneratorStep == Resumed /\ Next

\* lines 130-134: an event has been yielded while the stop flag is clear; it is sent
Relay ==
    /\ consumer_pc = "streaming"
    /\ taken < Len(events)
    /\ ~stop_requested
    /\ sent' = Append(sent, events[taken + 1])
    /\ taken' = taken + 1
    /\ UNCHANGED <<turnVars, restOfConsumer, consumer_pc, stop_requested>>

\* lines 130-132: an event has been yielded while the stop flag is set; stream_end
\* with reason "cancelled" is sent in its place and the loop is left.  The generator
\* is not resumed again.
Cancel ==
    /\ consumer_pc = "streaming"
    /\ taken < Len(events)
    /\ stop_requested
    /\ sent' = Append(sent, Cancelled)
    /\ taken' = taken + 1
    /\ consumer_pc' = "cancelled"
    /\ UNCHANGED <<turnVars, restOfConsumer, stop_requested>>

\* the generator has ended: the loop ends
LoopEnds ==
    /\ Resumed
    /\ pc \in {"stream_end", "error"}
    /\ consumer_pc' = "exhausted"
    /\ UNCHANGED <<turnVars, restOfConsumer, stop_requested, taken, sent>>

\* the generator has raised: the exception leaves handle_chat_message, and
\* receive_json (lines 95-99) answers it with an error
LoopRaises ==
    /\ Resumed
    /\ pc = "raised"
    /\ sent' = Append(sent, ConsumerError("database unavailable"))
    /\ consumer_pc' = "returned"
    /\ UNCHANGED <<turnVars, restOfConsumer, stop_requested, taken>>

\* lines 136-143: behind the loop, however it was left: nothing more when the
\* message named its conversation (`conversation_id`); otherwise the conversation
\* created for it gets its title and conversation_updated is sent, or generate_title
\* raises and receive_json answers with an error
GenerateTitle ==
    /\ consumer_pc \in {"cancelled", "exhausted"}
    /\ \E after \in {<< >>, <<ConversationUpdated>>,
                      <<ConsumerError("title generation failed")>>} :
           sent' = sent \o after
    /\ consumer_pc' = "returned"
    /\ UNCHANGED <<turnVars, restOfConsumer, stop_requested, taken>>

\* handle_stop (lines 194-196) or disconnect (line 77) sets the stop flag while
\* handle_chat_message is suspended
HandleStop ==
    /\ consumer_pc = "streaming"
    /\ ~stop_requested
    /\ stop_requested' = TRUE
    /\ UNCHANGED <<turnVars, restOfConsumer, consumer_pc, taken, sent>>

ConsumerNext ==
    \/ HandleChatMessage
    \/ GeneratorStep
    \/ Relay
    \/ Cancel
    \/ LoopEnds
    \/ LoopRaises
    \/ GenerateTitle
    \/ HandleStop

ConsumerSpec == ConsumerInit /\ [][ConsumerNext]_vars

----------------------------------------------------------------------------
(* MessageConverter applied to one stored message *)

\* most parts of a stored assistant message
MaxParts == 6
\* most attachments of a stored user message
MaxAttachments == 2

\* The parts tried, by kind: a text, a tool call whose args are an object, a tool
\* call whose args are a str holding a JSON text, a tool result that is an object,
\* a tool result that is a str.
PartKinds == {"text", "call_object", "call_string", "result_object", "result_string"}
KindSeqs == UNION {[1..n -> PartKinds] : n \in 0..MaxParts}

\* the text of the part at position i, and the id of the call at position i
PartTexts == <<"t1", "t2", "t3", "t4", "t5", "t6", "t7", "t8">>
CallIds == <<"call_1", "call_2", "call_3", "call_4", "call_5", "call_6", "call_7",
             "call_8">>

\* a result answers the closest call before it
AnsweredCall(kinds, i) ==
    LET before == {j \in 1..(i - 1) : kinds[j] \in {"call_object", "call_string"}}
    IN IF before = {} THEN "call_0"
       ELSE CallIds[CHOOSE j \in before : \A k \in before : k <= j]

StoredPart(kinds, i) ==
    CASE kinds[i] = "text" -> [type |-> "text", text |-> <<PartTexts[i]>>]
      [] kinds[i] = "call_object" ->
            [type |-> "tool_call", tool_call_id |-> CallIds[i],
             tool_name |-> "get_weather", args |-> Dict("city:SF")]
      [] kinds[i] = "call_string" ->
            [type |-> "tool_call", tool_call_id |-> CallIds[i],
             tool_name |-> "get_weather", args |-> JsonDumps(Dict("city:SF"))]
      [] kinds[i] = "result_object" ->
            [type |-> "tool_result", tool_call_id |-> AnsweredCall(kinds, i),
             tool_name |-> "get_weather", result |-> Dict("temperature:72")]
      [] OTHER ->
            [type |-> "tool_result", tool_call_id |-> AnsweredCall(kinds, i),
             tool_name |-> "get_weather", result |-> Str(<<"72F">>)]

StoredAssistantMessages ==
    {[role |-> "assistant", parts |-> [i \in 1..Len(k) |-> StoredPart(k, i)],
      attachments |-> << >>] : k \in KindSeqs}

\* attachments: an image and a document
Attachments ==
    {[is_image |-> TRUE, url |-> "https://files/cat.png"],
     [is_image |-> FALSE, url |-> "https://files/notes.pdf"]}
StoredUserMessages ==
    {[role |-> "user", parts |-> p, attachments |-> a] :
        p \in {<<[type |-> "text", text |-> <<"hi">>]>>,
               <<[type |-> "text", text |-> << >>]>>},
        a \in UNION {[1..n -> Attachments] : n \in 0..MaxAttachments}}

ConverterInit ==
    /\ TurnAtRest
    /\ PipelineAtRest
    /\ LimiterAtRest
    /\ ConsumerAtRest
    /\ ProviderAtRest
    /\ BootAtRest
    /\ conv_pc = "stored"
    /\ stored \in StoredAssistantMessages \cup StoredUserMessages
    /\ model_messages = << >>
    /\ rebuilt = None

restOfConverter == <<turnVars, pipelineVars, limiterVars, consumerVars, providerVars,
                     bootVars>>

\* MessageConverter.to_model_messages([stored])
ToModelMessagesCall ==
    /\ conv_pc = "stored"
    /\ model_messages' = ToModelMessages(<<stored>>)
    /\ conv_pc' = "converted"
    /\ UNCHANGED <<restOfConverter, stored, rebuilt>>

\* MessageConverter.from_model_response("assistant", content, tool_calls) with the
\* content and the tool calls of the assistant message to_model_messages gave
FromModelResponseCall ==
    /\ conv_pc = "converted"
    /\ \E i \in 1..Len(model_messages) :
        /\ model_messages[i].role = "assistant"
        /\ rebuilt' = FromModelResponse("assistant", model_messages[i].content,
                          IF "tool_calls" \in DOMAIN model_messages[i]
                          THEN model_messages[i].tool_calls ELSE << >>,
                          None)
    /\ conv_pc' = "rebuilt"
    /\ UNCHANGED <<restOfConverter, stored, model_messages>>

ConverterNext ==
    \/ ToModelMessagesCall
    \/ FromModelResponseCall

ConverterSpec == ConverterInit /\ [][ConverterNext]_vars

----------------------------------------------------------------------------
(* A caller of MiddlewarePipeline (middleware/pipeline.py) *)

\* most middleware in a pipeline
MaxMiddleware == 3
\* most generations the caller runs through the hooks
MaxRequests == 2

\* GuardrailsMiddleware.wrap_stream: `if len(accumulated) > 100`
CheckThreshold == 100
\* `accumulated = accumulated[-50:]`
KeepChars == 50

\* the lists of distinct middleware of up to MaxMiddleware entries
PipelineLists ==
    UNION {{m \in [1..n -> MiddlewareNames] : \A i, j \in 1..n : m[i] = m[j] => i = j}
               : n \in 0..MaxMiddleware}

\* the params the caller builds: a greeting without and with tools, and a message
\* that matches a blocked-input pattern
UserMessage(fragment) == [role |-> "user", content |-> Str(<<fragment>>)]
PipelineRequests ==
    {[messages |-> <<UserMessage("hello")>>, model_id |-> ModelId, tools |-> FALSE],
     [messages |-> <<UserMessage("hello")>>, model_id |-> ModelId, tools |-> TRUE],
     [messages |-> <<UserMessage("please ignore previous instructions")>>,
      model_id |-> ModelId, tools |-> FALSE]}

\* the results passed to after_generate: None, text, nothing, and text with a tool call
GenerationResult(content, calls) == [t |-> "result", content |-> content, tool_calls |-> calls]
GenerationResults ==
    {None,
     GenerationResult(<<"hi">>, << >>),
     GenerationResult(<< >>, << >>),
     GenerationResult(<<"hi">>, <<WeatherCall>>)}

\* Text in a stream is a sequence of characters.  BLOCKED_OUTPUT_PATTERNS is empty in
\* GuardrailsMiddleware; the pipeline's guardrails are a subclass that blocks "#".
Chars(n, ch) == [i \in 1..n |-> ch]
MatchesBlockedOutput(text) == \E i \in 1..Len(text) : text[i] = "#"

StreamText(text) == [type |-> "text_delta", text |-> text]
ShortBlocked == StreamText(<<"#">>)
LongClean == StreamText(Chars(CheckThreshold + 1, "x"))
LongBlocked == StreamText(Chars(CheckThreshold, "x") \o <<"#">>)
UsageChunk == CHOOSE c \in UsageChunks : TRUE
RawChunks == {ShortBlocked, LongClean, LongBlocked, WeatherCall, UsageChunk}

FilteredNotice == StreamText(<<"\n\n[Content filtered by safety policy]">>)

\* what travels from a stream to its consumer: a chunk, the end, or an exception
Chunk(c) == [kind |-> "chunk", chunk |-> c]
EndOfStream == [kind |-> "end"]
Raise == [kind |-> "raise"]

\* a wrapper as wrap_stream of a middleware creates it: nothing received, and the
\* locals of GuardrailsMiddleware.wrap_stream
NewLayer == [seen |-> << >>, accumulated |-> << >>, status |-> "open"]

LastChars(text, n) == SubSeq(text, Len(text) - n + 1, Len(text))

\* GuardrailsMiddleware.wrap_stream, one chunk: text is accumulated; once more than
\* CheckThreshold characters are accumulated they are checked: on a match the notice
\* is yielded and the generator returns at its next resumption, otherwise the last
\* KeepChars characters are kept and the chunk is yielded
GuardrailsReceives(layer, c) ==
    IF c.type = "text_delta"
    THEN LET accumulated == layer.accumulated \o c.text
         IN IF Len(accumulated) > CheckThreshold
            THEN IF MatchesBlockedOutput(accumulated)
                 THEN [layer |-> [layer EXCEPT !.accumulated = accumulated,
                                               !.status = "blocked"],
                       item |-> Chunk(FilteredNotice)]
                 ELSE [layer |-> [layer EXCEPT
                                      !.accumulated = LastChars(accumulated, KeepChars)],
                       item |-> Chunk(c)]
            ELSE [layer |-> [layer EXCEPT !.accumulated = accumulated],
                  item |-> Chunk(c)]
    ELSE [layer |-> layer, item |-> Chunk(c)]

\* one wrapper resumed with what the stream inside it produced: [layer, item].  An
\* exception or the end of the inner stream leaves every wrapper the same way (no
\* wrapper has a try around its `async for`); the raising wrapper raises on a chunk
\* when `fails` (status "failed": the exception is its own).
LayerReceives(name, layer, item, fails) ==
    CASE item.kind = "raise" -> [layer |-> [layer EXCEPT !.status = "raised"], item |-> Raise]
      [] item.kind = "end" -> [layer |-> [layer EXCEPT !.status = "ended"], item |-> EndOfStream]
      [] OTHER ->
            LET got == [layer EXCEPT !.seen = Append(@, item.chunk)]
            IN CASE name = "guardrails" -> GuardrailsReceives(got, item.chunk)
                 [] name = "raising" /\ fails ->
                        [layer |-> [got EXCEPT !.status = "failed"], item |-> Raise]
                 [] OTHER -> [layer |-> got, item |-> item]

RECURSIVE PassThrough(_, _, _, _, _, _)
\* an item of the stream inside wrapper order[k] travels outwards through the
\* wrappers order[k], order[k+1], ... to the caller: [layers, item].  `order` lists
\* the positions of the middleware from the innermost wrapper to the outermost.
PassThrough(mws, order, k, ls, item, fails) ==
    IF k > Len(order) THEN [layers |-> ls, item |-> item]
    ELSE LET i == order[k]
             r == LayerReceives(mws[i], ls[i], item, fails)
         IN PassThrough(mws, order, k + 1, [ls EXCEPT ![i] = r.layer], r.item, fails)

\* the positions of the middleware, innermost wrapper first
Positions(mws) == WrapOrder([i \in 1..Len(mws) |-> i])

\* position in `order` of the outermost wrapper that has yielded the notice and
\* returns when it is resumed; 0 without one
ReturningWrapper(order, ls) ==
    LET S == {k \in 1..Len(order) : ls[order[k]].status = "blocked"}
    IN IF S = {} THEN 0 ELSE CHOOSE k \in S : \A j \in S : j <= k

PipelineInit ==
    /\ TurnAtRest
    /\ LimiterAtRest
    /\ ConsumerAtRest
    /\ PureAtRest
    /\ middleware \in PipelineLists
    /\ hook_pc = "idle"
    /\ hook_params = [messages |-> << >>, model_id |-> ModelId, tools |-> FALSE]
    /\ hook_result = None
    /\ hook_calls = << >>
    /\ hook_logged = << >>
    /\ django_cache = {}
    /\ cache_ops = << >>
    /\ requests_made = 0
    /\ wire_calls = << >>
    /\ layers = << >>
    /\ raw_chunks = << >>
    /\ received = << >>

streamVars == <<layers, raw_chunks, received>>
restOfPipeline == <<turnVars, limiterVars, consumerVars, pureVars>>

\* the caller builds params and awaits pipeline.transform_params(params)
CallTransformParams ==
    /\ hook_pc = "idle"
    /\ requests_made < MaxRequests
    /\ \E p \in PipelineRequests :
        LET r == PipelineTransformParams(middleware, p, django_cache)
        IN /\ hook_params' = r.params
           /\ hook_calls' = r.calls
           /\ hook_logged' = r.logged
           /\ cache_ops' = cache_ops \o r.ops
           /\ hook_pc' = IF r.raised THEN "raised" ELSE "transformed"
    /\ UNCHANGED <<restOfPipeline, streamVars, middleware, hook_result, wire_calls, django_cache,
                   requests_made>>

\* the caller awaits pipeline.before_generate(params)
CallBeforeGenerate ==
    /\ hook_pc = "transformed"
    /\ LET r == PipelineBeforeGenerate(middleware, hook_params, django_cache)
       IN /\ hook_params' = r.params
          /\ hook_calls' = r.calls
          /\ hook_logged' = r.logged
          /\ hook_pc' = IF r.raised THEN "raised" ELSE "generating"
    /\ UNCHANGED <<restOfPipeline, streamVars, middleware, hook_result, wire_calls, django_cache,
                   cache_ops, requests_made>>

\* the caller makes its generation as ChatService._stream_with_middleware calls the
\* provider (chat_service.py:406-410): with the messages, model id and tools of
\* params, whatever else params holds; the provider's answer is the result
CallProvider ==
    /\ hook_pc = "generating"
    /\ wire_calls' = Append(wire_calls, [kwargs |-> ProviderKwargs(hook_params),
                                         params |-> hook_params])
    /\ \E result \in GenerationResults : hook_result' = result
    /\ hook_pc' = "has_result"
    /\ UNCHANGED <<restOfPipeline, streamVars, middleware, hook_params, hook_calls,
                   hook_logged, django_cache, cache_ops, requests_made>>

\* the caller awaits pipeline.after_generate(params, result)
CallAfterGenerate ==
    /\ hook_pc = "has_result"
    /\ LET r == PipelineAfterGenerate(middleware, hook_params, hook_result, django_cache)
       IN /\ hook_params' = r.params
          /\ hook_calls' = r.calls
          /\ hook_logged' = r.logged
          /\ django_cache' = r.store
          /\ cache_ops' = cache_ops \o r.ops
          /\ hook_pc' = IF r.raised THEN "raised" ELSE "generated"
    /\ requests_made' = requests_made + 1
    /\ UNCHANGED <<restOfPipeline, streamVars, middleware, hook_result, wire_calls>>

\* the caller turns to its next generation
NextRequest ==
    /\ hook_pc = "generated"
    /\ hook_pc' = "idle"
    /\ UNCHANGED <<restOfPipeline, streamVars, middleware, hook_params, hook_result, wire_calls,
                   hook_calls, hook_logged, django_cache, cache_ops, requests_made>>

\* an entry of the cache expires (cache_timeout)
CacheExpires ==
    /\ hook_pc = "idle"
    /\ \E e \in django_cache : django_cache' = django_cache \ {e}
    /\ UNCHANGED <<restOfPipeline, streamVars, middleware, hook_pc, hook_params,
                   hook_result, wire_calls, hook_calls, hook_logged, cache_ops, requests_made>>

\* the caller starts `async for chunk in pipeline.wrap_stream(raw, params)`: at its
\* first resumption wrap_stream calls mw.wrap_stream of every middleware, last to
\* first; each call only creates the wrapper's generator.  No wrapper reads params
\* or the cache, so the stream is opened by a caller that has made no generation.
OpenWrapStream ==
    /\ hook_pc = "idle"
    /\ requests_made = 0
    /\ layers' = [i \in 1..Len(middleware) |-> NewLayer]
    /\ hook_calls' = [k \in 1..Len(middleware) |->
                          HookCall(middleware[Positions(middleware)[k]], "wrap_stream",
                                   hook_params, FALSE)]
    /\ hook_logged' = << >>
    /\ hook_pc' = "streaming"
    /\ UNCHANGED <<restOfPipeline, middleware, hook_params, hook_result, wire_calls, django_cache,
                   cache_ops, requests_made, raw_chunks, received>>

\* what reaches the caller: a chunk is received, the end or an exception ends the loop
Reaches(item) ==
    /\ received' = IF item.kind = "chunk" THEN Append(received, item.chunk) ELSE received
    /\ hook_pc' = CASE item.kind = "chunk" -> "streaming"
                    [] item.kind = "end" -> "stream_ended"
                    [] OTHER -> "stream_raised"

\* the caller asks for the next chunk and the raw provider stream yields one
ProviderChunk ==
    /\ hook_pc = "streaming"
    /\ ReturningWrapper(Positions(middleware), layers) = 0
    /\ Len(raw_chunks) < MaxChunks
    /\ \E c \in RawChunks, fails \in BOOLEAN :
        LET r == PassThrough(middleware, Positions(middleware), 1, layers, Chunk(c), fails)
        IN /\ raw_chunks' = Append(raw_chunks, c)
           /\ layers' = r.layers
           /\ Reaches(r.item)
    /\ UNCHANGED <<restOfPipeline, middleware, hook_params, hook_result, wire_calls, hook_calls,
                   hook_logged, django_cache, cache_ops, requests_made>>

\* the caller asks for the next chunk and the raw provider stream ends
ProviderEnds ==
    /\ hook_pc = "streaming"
    /\ ReturningWrapper(Positions(middleware), layers) = 0
    /\ LET r == PassThrough(middleware, Positions(middleware), 1, layers, EndOfStream, FALSE)
       IN /\ layers' = r.layers
          /\ Reaches(r.item)
    /\ UNCHANGED <<restOfPipeline, middleware, hook_params, hook_result, wire_calls, hook_calls,
                   hook_logged, django_cache, cache_ops, requests_made, raw_chunks>>

\* the caller asks for the next chunk and the raw provider stream raises
ProviderRaises ==
    /\ hook_pc = "streaming"
    /\ ReturningWrapper(Positions(middleware), layers) = 0
    /\ LET r == PassThrough(middleware, Positions(middleware), 1, layers, Raise, FALSE)
       IN /\ layers' = r.layers
          /\ Reaches(r.item)
    /\ UNCHANGED <<restOfPipeline, middleware, hook_params, hook_result, wire_calls, hook_calls,
                   hook_logged, django_cache, cache_ops, requests_made, raw_chunks>>

\* the caller asks for the next chunk and a wrapper that has yielded the notice
\* returns: the wrappers outside it end, the streams inside it are not resumed
WrapperReturns ==
    /\ hook_pc = "streaming"
    /\ ReturningWrapper(Positions(middleware), layers) # 0
    /\ LET order == Positions(middleware)
           k == ReturningWrapper(order, layers)
           ended == [layers EXCEPT ![order[k]].status = "ended"]
           r == PassThrough(middleware, order, k + 1, ended, EndOfStream, FALSE)
       IN /\ layers' = r.layers
          /\ Reaches(r.item)
    /\ UNCHANGED <<restOfPipeline, middleware, hook_params, hook_result, wire_calls, hook_calls,
                   hook_logged, django_cache, cache_ops, requests_made, raw_chunks>>

PipelineNext ==
    \/ CallTransformParams
    \/ CallBeforeGenerate
    \/ CallProvider
    \/ CallAfterGenerate
    \/ NextRequest
    \/ CacheExpires
    \/ OpenWrapStream
    \/ ProviderChunk
    \/ ProviderEnds
    \/ ProviderRaises
    \/ WrapperReturns

PipelineSpec == PipelineInit /\ [][PipelineNext]_vars

----------------------------------------------------------------------------
(* RateLimitMiddleware (middleware/rate_limit_middleware.py) and its callers *)

\* tasks calling the middleware concurrently
MaxTasks == 2
\* before_generate calls made by all tasks together
MaxCalls == 3
\* the clock advances in steps of TickSeconds up to MaxTime seconds
TickSeconds == 20
MaxTime == 80

\* `self._rpm / 60`, `self._tpm / 60`
SecondsPerMinute == 60

\* The buckets hold sixtieths of a token, so that limit / 60 per second is a whole
\* number: one token is SecondsPerMinute sixtieths.
OneToken == SecondsPerMinute

Tasks == 1..MaxTasks

\* CHAT_SDK["RATE_LIMIT"]: requests_per_minute and tokens_per_minute
LimitChoices == {[rpm |-> 1, tpm |-> 2], [rpm |-> 2, tpm |-> 1]}

\* prompt_tokens + completion_tokens of a result (0: no result, or no usage)
UsageTotals == {0, 3}

Min(a, b) == IF a <= b THEN a ELSE b

\* mutant: the bucket is not capped
Uncapped(limit, amount) == amount
\* min(float(limit), amount)
Capped(limit, amount) == Min(limit, amount)

Buckets == [request_tokens |-> request_tokens, token_tokens |-> token_tokens,
            last_refill |-> last_refill]

\* _refill at time t: both buckets gain elapsed * limit / 60, capped at the limit
Refill(b, lim, t) ==
    LET elapsed == t - b.last_refill
    IN [request_tokens |-> Capped(lim.rpm * OneToken, b.request_tokens + elapsed * lim.rpm),
        token_tokens |-> Capped(lim.tpm * OneToken, b.token_tokens + elapsed * lim.tpm),
        last_refill |-> t]

\* what refill_seen records of a _refill at time t
RefillSeen(before, after, t) ==
    <<[elapsed |-> t - before.last_refill, before |-> before, after |-> after]>>

\* (1 - self._request_tokens) / (self._rpm / 60), in seconds
WaitTime(b, lim) == (OneToken - b.request_tokens) \div lim.rpm

\* mutant: the bucket is not refilled again after the sleep
NoRefillAfterSleep(b, lim, t) == b
\* line 45: the _refill behind asyncio.sleep
RefillAfterSleep(b, lim, t) == Refill(b, lim, t)

\* mutant: _lock is not honoured, acquire() never suspends
AlwaysAcquires(t) == TRUE
\* asyncio.Lock.acquire returns at once when the lock is free and nobody waits for
\* it; a task resumed in acquire() takes the lock when it is the first waiter
CanAcquire(t) ==
    /\ lock_owner = NoTask
    /\ lock_waiters = << >> \/ Head(lock_waiters) = t

SetBuckets(b) ==
    /\ request_tokens' = b.request_tokens
    /\ token_tokens' = b.token_tokens
    /\ last_refill' = b.last_refill

\* mutant: a task that has taken the lock stays in the queue of waiters
StaysQueued(t) == lock_waiters
\* asyncio.Lock.acquire: the resumed waiter leaves the queue
WithoutWaiter(t) == SelectSeq(lock_waiters, LAMBDA w : w # t)

LimiterInit ==
    /\ TurnAtRest
    /\ PipelineAtRest
    /\ ConsumerAtRest
    /\ PureAtRest
    /\ limits \in LimitChoices
    /\ request_tokens = limits.rpm * OneToken
    /\ token_tokens = limits.tpm * OneToken
    /\ last_refill = 0
    /\ now = 0
    /\ lock_owner = NoTask
    /\ lock_waiters = << >>
    /\ task_pc = [t \in Tasks |-> "idle"]
    /\ task_usage = [t \in Tasks |-> 0]
    /\ wake_at = [t \in Tasks |-> 0]
    /\ calls_made = 0
    /\ admitted = << >>
    /\ debited = 0
    /\ refill_seen = << >>

restOfLimiter == <<turnVars, pipelineVars, consumerVars, pureVars, limits>>

\* lines 38-47 with the lock taken by task t: _refill; with a request token at hand
\* it is debited and the lock released; otherwise the task sleeps holding the lock
InsideBeforeGenerate(t) ==
    LET b == Refill(Buckets, limits, now)
    IN /\ refill_seen' = RefillSeen(Buckets, b, now)
       /\ lock_waiters' = WithoutWaiter(t)
       /\ IF b.request_tokens < OneToken
          THEN /\ SetBuckets(b)
               /\ wake_at' = [wake_at EXCEPT ![t] = now + WaitTime(b, limits)]
               /\ lock_owner' = t
               /\ task_pc' = [task_pc EXCEPT ![t] = "sleeping"]
               /\ admitted' = admitted
          ELSE /\ SetBuckets([b EXCEPT !.request_tokens = @ - OneToken])
               /\ wake_at' = wake_at
               /\ lock_owner' = NoTask
               /\ task_pc' = [task_pc EXCEPT ![t] = "generating"]
               /\ admitted' = Append(admitted, now)

\* a task calls before_generate: it runs to the end, to the sleep, or suspends in
\* _lock.acquire()
BeforeGenerate(t) ==
    /\ task_pc[t] = "idle"
    /\ calls_made < MaxCalls
    /\ calls_made' = calls_made + 1
    /\ IF CanAcquire(t)
       THEN InsideBeforeGenerate(t)
       ELSE /\ lock_waiters' = Append(lock_waiters, t)
            /\ task_pc' = [task_pc EXCEPT ![t] = "acquire_before"]
            /\ UNCHANGED <<request_tokens, token_tokens, last_refill, lock_owner,
                           wake_at, admitted, refill_seen>>
    /\ UNCHANGED <<restOfLimiter, now, task_usage, debited>>

\* the lock was released and the first waiter, suspended in before_generate, resumes
ResumeBeforeGenerate(t) ==
    /\ task_pc[t] = "acquire_before"
    /\ CanAcquire(t)
    /\ InsideBeforeGenerate(t)
    /\ UNCHANGED <<restOfLimiter, now, task_usage, calls_made, debited>>

\* lines 45-47: asyncio.sleep has ended; _refill, the debit, the lock is released
WakeUp(t) ==
    /\ task_pc[t] = "sleeping"
    /\ now >= wake_at[t]
    /\ LET b == RefillAfterSleep(Buckets, limits, now)
       IN /\ SetBuckets([b EXCEPT !.request_tokens = @ - OneToken])
          /\ refill_seen' = RefillSeen(Buckets, b, now)
    /\ lock_owner' = NoTask
    /\ task_pc' = [task_pc EXCEPT ![t] = "generating"]
    /\ admitted' = Append(admitted, now)
    /\ UNCHANGED <<restOfLimiter, now, lock_waiters, task_usage, wake_at, calls_made,
                   debited>>

\* lines 53-59 with the lock taken by task t: the debit; the lock is released
InsideAfterGenerate(t, total_tokens) ==
    /\ token_tokens' = token_tokens - total_tokens * OneToken
    /\ debited' = debited + total_tokens
    /\ lock_waiters' = WithoutWaiter(t)
    /\ task_pc' = [task_pc EXCEPT ![t] = "idle"]

\* a task calls after_generate with the usage of its result: the total is computed,
\* then the debit is made, or the task suspends in _lock.acquire()
AfterGenerate(t) ==
    /\ task_pc[t] = "generating"
    /\ \E total_tokens \in UsageTotals :
        /\ IF CanAcquire(t)
           THEN /\ InsideAfterGenerate(t, total_tokens)
                /\ task_usage' = task_usage
           ELSE /\ task_usage' = [task_usage EXCEPT ![t] = total_tokens]
                /\ lock_waiters' = Append(lock_waiters, t)
                /\ task_pc' = [task_pc EXCEPT ![t] = "acquire_after"]
                /\ UNCHANGED <<token_tokens, debited>>
    /\ UNCHANGED <<restOfLimiter, request_tokens, last_refill, now, lock_owner,
                   wake_at, calls_made, admitted, refill_seen>>

\* the lock was released and the first waiter, suspended in after_generate, resumes
ResumeAfterGenerate(t) ==
    /\ task_pc[t] = "acquire_after"
    /\ CanAcquire(t)
    /\ InsideAfterGenerate(t, task_usage[t])
    /\ task_usage' = [task_usage EXCEPT ![t] = 0]
    /\ UNCHANGED <<restOfLimiter, request_tokens, last_refill, now, lock_owner,
                   wake_at, calls_made, admitted, refill_seen>>

\* time.monotonic() advances
Tick ==
    /\ now + TickSeconds <= MaxTime
    /\ now' = now + TickSeconds
    /\ UNCHANGED <<restOfLimiter, request_tokens, token_tokens, last_refill,
                   lock_owner, lock_waiters, task_pc, task_usage, wake_at,
                   calls_made, admitted, debited, refill_seen>>

LimiterNext ==
    \/ \E t \in Tasks : BeforeGenerate(t)
    \/ \E t \in Tasks : ResumeBeforeGenerate(t)
    \/ \E t \in Tasks : WakeUp(t)
    \/ \E t \in Tasks : AfterGenerate(t)
    \/ \E t \in Tasks : ResumeAfterGenerate(t)
    \/ Tick

LimiterSpec == LimiterInit /\ [][LimiterNext]_vars

\* line 44: the clock runs on while a task is in asyncio.sleep(wait_time), also
\* past MaxTime, so that every sleep that has begun comes to its end
SleepPasses ==
    /\ \E t \in Tasks : task_pc[t] = "sleeping" /\ now < wake_at[t]
    /\ now' = now + TickSeconds
    /\ UNCHANGED <<restOfLimiter, request_tokens, token_tokens, last_refill,
                   lock_owner, lock_waiters, task_pc, task_usage, wake_at,
                   calls_made, admitted, debited, refill_seen>>

LimiterFairNext ==
    \/ LimiterNext
    \/ SleepPasses

\* The event loop runs every task that is ready: a sleep comes to its end and the
\* sleeper is resumed; the first waiter of a released asyncio.Lock is resumed.
\* Nothing makes a task call before_generate or after_generate.
LimiterFairness ==
    /\ WF_vars(SleepPasses)
    /\ \A t \in Tasks :
        /\ WF_vars(WakeUp(t))
        /\ WF_vars(ResumeBeforeGenerate(t))
        /\ WF_vars(ResumeAfterGenerate(t))

LimiterFairSpec == LimiterInit /\ [][LimiterFairNext]_vars /\ LimiterFairness

----------------------------------------------------------------------------
(* Provider adapters reading a vendor's stream (providers/) *)

\* most chunks the OpenAI-style vendor sends in one stream
MaxVendorChunks == 4
\* most tool calls the vendor has in flight in one stream
MaxVendorCalls == 2

\* A JSON text is a sequence of tokens; the vendor cuts it into fragments
JsonFragments == {<<"{">>, <<"city:SF", "}">>, <<"}">>}
IsJsonText(text) == text \in {<<"{", "}">>, <<"{", "city:SF", "}">>}
JsonLoads(text) == Dict(IF Len(text) = 2 THEN "" ELSE text[2])

\* `args = {}` / `try: args = json.loads(text)` / `except json.JSONDecodeError: pass`
LoadsOrEmpty(text) == IF IsJsonText(text) THEN JsonLoads(text) ELSE Dict("")

VendorCallId(index) == <<"call_a", "call_b", "call_c", "call_d">>[index + 1]
VendorToolName(index) == <<"get_weather", "get_time", "boom", "nope">>[index + 1]

\* what stream() yields, with the number of vendor events received by then
YieldedAt(chunks, n) == [i \in 1..Len(chunks) |-> [chunk |-> chunks[i], at |-> n]]

restOfProvider == <<turnVars, pipelineVars, limiterVars, consumerVars, converterVars,
                    bootVars>>

(* OpenAIProvider.stream (providers/openai_provider.py) *)

\* a chunk with choices: choices[0].delta.content, .delta.tool_calls, .finish_reason
ChoiceChunk(content, deltas, finish) ==
    [kind |-> "choice", content |-> content, tool_calls |-> deltas,
     finish_reason |-> finish]
ToolCallDelta(index, id, name, arguments) ==
    [index |-> index, id |-> id, name |-> name, arguments |-> arguments]
VendorUsageChunk ==
    [kind |-> "usage", usage |-> [prompt_tokens |-> 2, completion_tokens |-> 1]]
\* a chunk with neither choices nor usage (the first chunk of an Azure deployment)
VendorEmptyChunk == [kind |-> "empty"]
FinishReasons == {"tool_calls", "stop", "length"}

\* what the vendor has sent so far
VendorFinished ==
    \E n \in 1..Len(vendor_events) :
        vendor_events[n].kind = "choice" /\ vendor_events[n].finish_reason # ""
OpenedIndexes ==
    {d.index : d \in UNION {{vendor_events[n].tool_calls[k] :
                                k \in 1..Len(vendor_events[n].tool_calls)} :
                            n \in {m \in 1..Len(vendor_events) :
                                      vendor_events[m].kind = "choice"}}}

\* the chunks with choices the vendor may send next: a text, the first delta of the
\* next call (id and name), an argument fragment of an open call, or the finish
NextChoiceChunks ==
    {ChoiceChunk(<<"Hi">>, << >>, "")}
    \cup {ChoiceChunk(<< >>, <<ToolCallDelta(i, VendorCallId(i), VendorToolName(i), << >>)>>, "") :
             i \in {j \in 0..(MaxVendorCalls - 1) :
                       j \notin OpenedIndexes /\ \A k \in 0..(j - 1) : k \in OpenedIndexes}}
    \cup {ChoiceChunk(<< >>, <<ToolCallDelta(i, "", "", f)>>, "") :
             i \in OpenedIndexes, f \in JsonFragments}
    \cup {ChoiceChunk(<< >>, << >>, r) : r \in FinishReasons}

\* lines 124-142: one tc_delta is buffered under its index; current_tool_calls is
\* kept as the sequence of its entries in insertion order
BufferDelta(buffer, d) ==
    LET known == {p \in 1..Len(buffer) : buffer[p].index = d.index}
        opened == IF known = {}
                  THEN Append(buffer, [index |-> d.index, tool_call_id |-> d.id,
                                       tool_name |-> "", args_str |-> << >>])
                  ELSE buffer
        p == CHOOSE q \in 1..Len(opened) : opened[q].index = d.index
    IN  [opened EXCEPT ![p] =
            [index |-> @.index,
             tool_call_id |-> IF d.id # "" THEN d.id ELSE @.tool_call_id,
             tool_name |-> IF d.name # "" THEN d.name ELSE @.tool_name,
             args_str |-> @.args_str \o d.arguments]]

RECURSIVE BufferDeltas(_, _, _)
BufferDeltas(buffer, deltas, k) ==
    IF k > Len(deltas) THEN buffer
    ELSE BufferDeltas(BufferDelta(buffer, deltas[k]), deltas, k + 1)

\* lines 150-161: one tool_call chunk per buffered call
EmittedCalls(buffer) ==
    [p \in 1..Len(buffer) |->
        [type |-> "tool_call", tool_call_id |-> buffer[p].tool_call_id,
         tool_name |-> buffer[p].tool_name, args |-> LoadsOrEmpty(buffer[p].args_str)]]

\* lines 149 and 162: the finish reasons on which the buffered calls are emitted
\* and the buffer is cleared
EmitsOn(finish) == finish = "tool_calls"

OpenAIInit ==
    /\ TurnAtRest
    /\ PipelineAtRest
    /\ LimiterAtRest
    /\ ConsumerAtRest
    /\ ConverterAtRest
    /\ BootAtRest
    /\ adapter_pc = "openai"
    /\ vendor_events = << >>
    /\ tool_buffer = << >>
    /\ yielded = << >>

\* lines 104-112: a chunk without choices that carries usage; a usage chunk is yielded
OpenAIUsageChunk ==
    /\ adapter_pc = "openai"
    /\ Len(vendor_events) < MaxVendorChunks
    /\ VendorFinished
    /\ VendorUsageChunk \notin {vendor_events[n] : n \in 1..Len(vendor_events)}
    /\ vendor_events' = Append(vendor_events, VendorUsageChunk)
    /\ yielded' = yielded \o YieldedAt(<<[type |-> "usage",
                                          usage |-> VendorUsageChunk.usage]>>,
                                       Len(vendor_events) + 1)
    /\ UNCHANGED <<restOfProvider, adapter_pc, tool_buffer>>

\* lines 114-115: a chunk with neither choices nor usage is skipped
OpenAIEmptyChunk ==
    /\ adapter_pc = "openai"
    /\ vendor_events = << >>
    /\ vendor_events' = <<VendorEmptyChunk>>
    /\ UNCHANGED <<restOfProvider, adapter_pc, tool_buffer, yielded>>

\* lines 117-162: a chunk with choices: its text is yielded, its tool-call deltas
\* are buffered, and on its finish reason the buffered calls are emitted
OpenAIChoiceChunk ==
    /\ adapter_pc = "openai"
    /\ Len(vendor_events) < MaxVendorChunks
    /\ ~VendorFinished
    /\ \E chunk \in NextChoiceChunks :
        LET buffered == BufferDeltas(tool_buffer, chunk.tool_calls, 1)
            text == IF chunk.content # << >>
                    THEN <<StreamText(chunk.content)>> ELSE << >>
            emits == chunk.finish_reason # "" /\ EmitsOn(chunk.finish_reason)
        IN  /\ vendor_events' = Append(vendor_events, chunk)
            /\ tool_buffer' = IF emits THEN << >> ELSE buffered
            /\ yielded' = yielded \o
                   YieldedAt(text \o (IF emits THEN EmittedCalls(buffered) ELSE << >>),
                             Len(vendor_events) + 1)
    /\ UNCHANGED <<restOfProvider, adapter_pc>>

\* line 103: the vendor's stream is exhausted and stream() returns
OpenAIStreamEnds ==
    /\ adapter_pc = "openai"
    /\ VendorFinished
    /\ adapter_pc' = "returned"
    /\ UNCHANGED <<restOfProvider, vendor_events, tool_buffer, yielded>>

OpenAINext ==
    \/ OpenAIUsageChunk
    \/ OpenAIEmptyChunk
    \/ OpenAIChoiceChunk
    \/ OpenAIStreamEnds

OpenAISpec == OpenAIInit /\ [][OpenAINext]_vars

(* AnthropicProvider.stream (providers/anthropic_provider.py) *)

\* most events the Anthropic-style vendor sends in one stream
MaxVendorEvents == 6

BlockStart(block) == [type |-> "content_block_start", content_block |-> block]
BlockDelta(delta) == [type |-> "content_block_delta", delta |-> delta]
BlockStop == [type |-> "content_block_stop"]
MessageStop == [type |-> "message_stop"]
TextBlock == [type |-> "text"]
ToolUseBlock(n) == [type |-> "tool_use", id |-> VendorCallId(n), name |-> VendorToolName(n)]

\* what the vendor has sent so far: the start of the block that is open (0 when
\* none is), the tool_use blocks started, and whether the message has stopped
OpenBlock ==
    LET starts == {n \in 1..Len(vendor_events) :
                      /\ vendor_events[n].type = "content_block_start"
                      /\ \A m \in (n + 1)..Len(vendor_events) :
                             vendor_events[m].type # "content_block_stop"}
    IN  IF starts = {} THEN 0 ELSE CHOOSE n \in starts : TRUE
ToolUseBlocks ==
    {n \in 1..Len(vendor_events) :
        /\ vendor_events[n].type = "content_block_start"
        /\ vendor_events[n].content_block.type = "tool_use"}
MessageStopped ==
    \E n \in 1..Len(vendor_events) : vendor_events[n].type = "message_stop"

\* a content_block_stop that left the three locals as they are
KeepCurrentTool(buffer) == buffer
\* lines 259-261: the locals after a tool_call has been yielded (<< >> stands for
\* current_tool_id = None)
ResetCurrentTool(buffer) == << >>

\* line 250: `json.loads(current_tool_input) if current_tool_input else {}`, {} too
\* when json.loads raises
LoadsToolInput(text) == IF text = << >> THEN Dict("") ELSE LoadsOrEmpty(text)

AnthropicInit ==
    /\ TurnAtRest
    /\ PipelineAtRest
    /\ LimiterAtRest
    /\ ConsumerAtRest
    /\ ConverterAtRest
    /\ BootAtRest
    /\ adapter_pc = "anthropic"
    /\ vendor_events = << >>
    /\ tool_buffer = << >>
    /\ yielded = << >>

\* lines 232-237: content_block_start; a tool_use block sets the three locals
AnthropicBlockStart ==
    /\ adapter_pc = "anthropic"
    /\ Len(vendor_events) < MaxVendorEvents
    /\ ~MessageStopped
    /\ OpenBlock = 0
    /\ \E block \in {TextBlock, ToolUseBlock(Cardinality(ToolUseBlocks))} :
        /\ vendor_events' = Append(vendor_events, BlockStart(block))
        /\ tool_buffer' = IF block.type = "tool_use"
                          THEN <<[id |-> block.id, name |-> block.name, input |-> << >>]>>
                          ELSE tool_buffer
    /\ UNCHANGED <<restOfProvider, adapter_pc, yielded>>

\* lines 239-244: content_block_delta; a text_delta is yielded, an input_json_delta
\* is appended to current_tool_input
AnthropicBlockDelta ==
    /\ adapter_pc = "anthropic"
    /\ Len(vendor_events) < MaxVendorEvents
    /\ OpenBlock # 0
    /\ \E delta \in IF vendor_events[OpenBlock].content_block.type = "text"
                    THEN {[type |-> "text_delta", text |-> <<"Hi">>]}
                    ELSE {[type |-> "input_json_delta", partial_json |-> f] :
                             f \in JsonFragments} :
        /\ vendor_events' = Append(vendor_events, BlockDelta(delta))
        /\ IF delta.type = "text_delta"
           THEN /\ yielded' = yielded \o YieldedAt(<<StreamText(delta.text)>>,
                                                 Len(vendor_events) + 1)
                /\ UNCHANGED tool_buffer
           ELSE /\ tool_buffer' =
                       [p \in 1..Len(tool_buffer) |->
                           [tool_buffer[p] EXCEPT !.input = @ \o delta.partial_json]]
                /\ UNCHANGED yielded
    /\ UNCHANGED <<restOfProvider, adapter_pc>>

\* lines 246-261: content_block_stop; with current_tool_id set, the call is yielded
\* and the locals are reset
AnthropicBlockStop ==
    /\ adapter_pc = "anthropic"
    /\ Len(vendor_events) < MaxVendorEvents
    /\ OpenBlock # 0
    /\ vendor_events' = Append(vendor_events, BlockStop)
    /\ IF tool_buffer # << >>
       THEN /\ yielded' = yielded \o
                   YieldedAt(<<[type |-> "tool_call",
                                tool_call_id |-> tool_buffer[1].id,
                                tool_name |-> tool_buffer[1].name,
                                args |-> LoadsToolInput(tool_buffer[1].input)]>>,
                             Len(vendor_events) + 1)
            /\ tool_buffer' = ResetCurrentTool(tool_buffer)
       ELSE UNCHANGED <<yielded, tool_buffer>>
    /\ UNCHANGED <<restOfProvider, adapter_pc>>

\* lines 263-264: message_stop
AnthropicMessageStop ==
    /\ adapter_pc = "anthropic"
    /\ Len(vendor_events) < MaxVendorEvents
    /\ ~MessageStopped
    /\ OpenBlock = 0
    /\ vendor_events' = Append(vendor_events, MessageStop)
    /\ UNCHANGED <<restOfProvider, adapter_pc, tool_buffer, yielded>>

\* lines 266-274: the events are exhausted; the usage of the final message is
\* yielded and stream() returns
AnthropicStreamEnds ==
    /\ adapter_pc = "anthropic"
    /\ MessageStopped
    /\ yielded' = yielded \o YieldedAt(<<[type |-> "usage",
                                          usage |-> VendorUsageChunk.usage]>>,
                                       Len(vendor_events))
    /\ adapter_pc' = "returned"
    /\ UNCHANGED <<restOfProvider, vendor_events, tool_buffer>>

AnthropicNext ==
    \/ AnthropicBlockStart
    \/ AnthropicBlockDelta
    \/ AnthropicBlockStop
    \/ AnthropicMessageStop
    \/ AnthropicStreamEnds

AnthropicSpec == AnthropicInit /\ [][AnthropicNext]_vars

----------------------------------------------------------------------------
(* Start-up: provider constructors (providers/*.py) *)

restOfBoot == <<turnVars, pipelineVars, limiterVars, consumerVars, converterVars,
                providerVars>>

\* the built-in provider classes, and the keys a configuration map may hold
ProviderClasses ==
    {"OpenAIProvider", "AzureOpenAIProvider", "AnthropicProvider",
     "OpenAICompatibleProvider", "OllamaProvider", "GroqProvider", "TogetherProvider"}
ConfigKeys == {"api_key", "base_url", "endpoint"}

\* the setdefault calls of the convenience subclasses (openai_compatible.py:71-73,
\* 81-83, 91-93)
WithDefaults(class, config) ==
    CASE class = "OllamaProvider" -> config \cup {"base_url", "api_key"}
      [] class \in {"GroqProvider", "TogetherProvider"} -> config \cup {"base_url"}
      [] OTHER -> config

\* the classes whose __init__ is that of OpenAICompatibleProvider
CompatibleClasses ==
    {"OpenAICompatibleProvider", "OllamaProvider", "GroqProvider", "TogetherProvider"}

\* cls(model_id, **config): OpenAICompatibleProvider.__init__ raises ValueError
\* without base_url (openai_compatible.py:44-49); every other __init__ stores the
\* configuration and sets the client to None
Construct(class, config) ==
    LET given == WithDefaults(class, config)
    IN  IF class \in CompatibleClasses /\ "base_url" \notin given
        THEN [raised |-> "ValueError", instance |-> << >>]
        ELSE [raised |-> "none",
              instance |-> <<[class |-> class, config |-> given, client |-> FALSE]>>]

\* _get_client: whether the credential handed to the SDK's client class is None.
\* OpenAICompatibleProvider hands over config.get("api_key", "not-needed")
PassesNoCredential(instance) ==
    /\ instance.class \notin CompatibleClasses
    /\ "api_key" \notin instance.config

ConstructInit ==
    /\ TurnAtRest
    /\ PipelineAtRest
    /\ LimiterAtRest
    /\ ConsumerAtRest
    /\ ConverterAtRest
    /\ ProviderAtRest
    /\ boot_pc = "declared"
    /\ \E class \in ProviderClasses, config \in SUBSET ConfigKeys, sdk \in BOOLEAN :
           declared = <<[class |-> class, config |-> config, sdk_installed |-> sdk]>>
    /\ built = << >>
    /\ boot_log = << >>

\* the provider class is called with the configuration map
ConstructProvider ==
    /\ boot_pc = "declared"
    /\ LET r == Construct(declared[1].class, declared[1].config)
       IN  /\ built' = r.instance
           /\ IF r.raised = "none"
              THEN /\ boot_pc' = "constructed"
                   /\ UNCHANGED boot_log
              ELSE /\ boot_pc' = "raised"
                   /\ boot_log' = Append(boot_log,
                          [at |-> "construction", exception |-> r.raised])
    /\ UNCHANGED <<restOfBoot, declared>>

\* the first generate() or stream() call: _get_client imports the SDK (ImportError
\* when the package is missing) and builds its client; handed no credential, the
\* SDK's client class raises, or takes the credential from its environment
FirstUse ==
    /\ boot_pc = "constructed"
    /\ \E from_environment \in BOOLEAN :
        LET raised == IF ~declared[1].sdk_installed THEN "ImportError"
                      ELSE IF PassesNoCredential(built[1]) /\ ~from_environment
                           THEN "configuration error"
                           ELSE "none"
        IN  IF raised = "none"
            THEN /\ built' = <<[built[1] EXCEPT !.client = TRUE]>>
                 /\ boot_pc' = "ready"
                 /\ UNCHANGED boot_log
            ELSE /\ boot_pc' = "raised"
                 /\ boot_log' = Append(boot_log,
                        [at |-> "first use", exception |-> raised])
                 /\ UNCHANGED built
    /\ UNCHANGED <<restOfBoot, declared>>

ConstructNext ==
    \/ ConstructProvider
    \/ FirstUse

ConstructSpec == ConstructInit /\ [][ConstructNext]_vars

(* Start-up: class references of the settings (middleware/pipeline.py,
   providers/registry.py) *)

\* most class references in one list of the settings
MaxRefs == 3

\* A class reference is a str, the sequence of the segments of its dotted path, or
\* NoRef: a reference that is missing or None.
NoRef == [t |-> "none", v |-> << >>]
Package(kind) == <<"chat_sdk", kind>>
\* what importlib.import_module finds, and the classes getattr finds in it
Importable ==
    {[module |-> Package("middleware") \o <<"logging_middleware">>,
      class |-> "LoggingMiddleware"],
     [module |-> Package("middleware") \o <<"guardrails_middleware">>,
      class |-> "GuardrailsMiddleware"],
     [module |-> Package("providers") \o <<"openai_provider">>,
      class |-> "OpenAIProvider"],
     [module |-> Package("providers") \o <<"anthropic_provider">>,
      class |-> "AnthropicProvider"]}
\* the references tried: the classes of the package, a class the module lacks, a
\* module that does not exist, a bare class name, a path that starts with a dot,
\* and no reference
ClassRefs(kind) ==
    {Str(Append(i.module, i.class)) : i \in {j \in Importable : j.module[2] = kind}}
    \cup {Str(Append(i.module, "Nope")) : i \in {j \in Importable : j.module[2] = kind}}
    \cup {Str(<<"nope", "module", "Thing">>), Str(<<"GuardrailsMiddleware">>),
          Str(<<"", "Thing">>), NoRef}
RefLists(kind) == UNION {[1..n -> ClassRefs(kind)] : n \in 0..MaxRefs}

\* path.rsplit(".", 1)
RSplit(path) ==
    IF Len(path) >= 2 THEN <<SubSeq(path, 1, Len(path) - 1), path[Len(path)]>>
    ELSE <<path>>

\* the body of the try block (pipeline.py:94-97, registry.py:138-140):
\* `module_path, class_name = path.rsplit(".", 1)`, import_module, getattr
LoadClass(ref) ==
    IF ref = NoRef THEN [raised |-> "AttributeError", class |-> ""]
    ELSE LET parts == RSplit(ref.v)
         IN  IF Len(parts) # 2 THEN [raised |-> "ValueError", class |-> ""]
             ELSE IF parts[1] = <<"">> THEN [raised |-> "ValueError", class |-> ""]
             ELSE IF \E i \in Importable : i.module = parts[1]
                  THEN IF \E i \in Importable : i.module = parts[1] /\ i.class = parts[2]
                       THEN [raised |-> "none", class |-> parts[2]]
                       ELSE [raised |-> "AttributeError", class |-> ""]
                  ELSE [raised |-> "ImportError", class |-> ""]

\* `except (ImportError, AttributeError)`
CaughtByLoader(exception) == exception \in {"ImportError", "AttributeError"}

Returned(list, log) == [raised |-> "none", built |-> list, log |-> log]
Raised(exception, list, log) == [raised |-> exception, built |-> list, log |-> log]

\* MiddlewarePipeline.from_settings, from the i-th path on
RECURSIVE FromSettingsFrom(_, _, _, _)
FromSettingsFrom(paths, i, middleware_list, log) ==
    IF i > Len(paths) THEN Returned(middleware_list, log)
    ELSE LET r == LoadClass(paths[i])
         IN  IF r.raised = "none"
             THEN FromSettingsFrom(paths, i + 1, Append(middleware_list, r.class), log)
             ELSE IF CaughtByLoader(r.raised)
             THEN FromSettingsFrom(paths, i + 1, middleware_list,
                                   Append(log, [level |-> "error", entry |-> i]))
             ELSE Raised(r.raised, middleware_list, log)

FromSettings(paths) == FromSettingsFrom(paths, 1, << >>, << >>)

\* the names of the entries of CHAT_SDK["PROVIDERS"], in the order of the dict
EntryNames == <<"openai", "mine", "extra", "other", "more">>
Registered(name, class) == [name |-> name, class |-> class]

\* ProviderRegistry.register: _providers[name] = provider_class
Register(providers, name, class) ==
    IF \E k \in 1..Len(providers) : providers[k].name = name
    THEN [k \in 1..Len(providers) |->
             IF providers[k].name = name THEN Registered(name, class) ELSE providers[k]]
    ELSE Append(providers, Registered(name, class))

\* ProviderRegistry._register_builtins: the built-in classes under the names that
\* are not yet registered
Builtins ==
    <<Registered("openai", "OpenAIProvider"), Registered("anthropic", "AnthropicProvider"),
      Registered("azure_openai", "AzureOpenAIProvider")>>
RECURSIVE RegisterBuiltinsFrom(_, _)
RegisterBuiltinsFrom(providers, k) ==
    IF k > Len(Builtins) THEN providers
    ELSE RegisterBuiltinsFrom(
             IF \E j \in 1..Len(providers) : providers[j].name = Builtins[k].name
             THEN providers ELSE Append(providers, Builtins[k]),
             k + 1)

\* ProviderRegistry.auto_discover, from the i-th entry on
RECURSIVE AutoDiscoverFrom(_, _, _, _)
AutoDiscoverFrom(refs, i, providers, log) ==
    IF i > Len(refs) THEN Returned(RegisterBuiltinsFrom(providers, 1), log)
    ELSE IF refs[i] = NoRef
         THEN AutoDiscoverFrom(refs, i + 1, providers,
                               Append(log, [level |-> "warning", entry |-> i]))
    ELSE LET r == LoadClass(refs[i])
         IN  IF r.raised = "none"
             THEN AutoDiscoverFrom(refs, i + 1,
                                   Register(providers, EntryNames[i], r.class), log)
             ELSE IF CaughtByLoader(r.raised)
             THEN AutoDiscoverFrom(refs, i + 1, providers,
                                   Append(log, [level |-> "error", entry |-> i]))
             ELSE Raised(r.raised, providers, log)

AutoDiscover(refs) == AutoDiscoverFrom(refs, 1, << >>, << >>)

SettingsInit ==
    /\ TurnAtRest
    /\ PipelineAtRest
    /\ LimiterAtRest
    /\ ConsumerAtRest
    /\ ConverterAtRest
    /\ ProviderAtRest
    /\ boot_pc = "settings"
    /\ \E kind \in {"middleware", "providers"} :
        \E refs \in RefLists(kind) : declared = <<[kind |-> kind, refs |-> refs]>>
    /\ built = << >>
    /\ boot_log = << >>

\* what the call leaves behind: the list or registry it built, its log lines, and
\* the exception it let through
Booted(r) ==
    /\ built' = r.built
    /\ boot_log' = r.log \o (IF r.raised = "none" THEN << >>
                             ELSE <<[level |-> "raised", exception |-> r.raised]>>)
    /\ boot_pc' = IF r.raised = "none" THEN "returned" ELSE "raised"

\* MiddlewarePipeline.from_settings() with CHAT_SDK["MIDDLEWARE"] = refs
FromSettingsCall ==
    /\ boot_pc = "settings"
    /\ declared[1].kind = "middleware"
    /\ Booted(FromSettings(declared[1].refs))
    /\ UNCHANGED <<restOfBoot, declared>>

\* ProviderRegistry().auto_discover() with the `class` entries of
\* CHAT_SDK["PROVIDERS"] = refs
AutoDiscoverCall ==
    /\ boot_pc = "settings"
    /\ declared[1].kind = "providers"
    /\ Booted(AutoDiscover(declared[1].refs))
    /\ UNCHANGED <<restOfBoot, declared>>

SettingsNext ==
    \/ FromSettingsCall
    \/ AutoDiscoverCall

SettingsSpec == SettingsInit /\ [][SettingsNext]_vars

----------------------------------------------------------------------------
(* What the claims speak about *)

EventsOfType(type) == SelectSeq(events, LAMBDA e : e.type = type)
StepStarts == EventsOfType("step_start")
StepFinishes == EventsOfType("step_finish")
ToolOutputs == EventsOfType("tool_output")
LastEvent == events[Len(events)]

IsPrefix(a, b) == Len(a) <= Len(b) /\ a = SubSeq(b, 1, Len(a))

ToolCallsOf(chunks) == SelectSeq(chunks, LAMBDA c : c.type = "tool_call")

\* the provider behaves as the script says: stream i produces script[i] and ends.
\* A stream that was never read is consistent with every provider.
FollowsScript(script) ==
    \A i \in 1..Len(stream_log) :
        /\ i <= Len(script)
        /\ stream_log[i].state # "raised"
        /\ stream_log[i].state = "open" => IsPrefix(stream_log[i].chunks, script[i])
        /\ stream_log[i].state = "ended" => stream_log[i].chunks = script[i]

\* every stream of the provider carries a call of a registered tool
AlwaysToolCall ==
    \A i \in 1..Len(stream_log) :
        /\ stream_log[i].state # "raised"
        /\ \A k \in 1..Len(stream_log[i].chunks) :
               stream_log[i].chunks[k].type = "tool_call"
                   => stream_log[i].chunks[k].tool_name \in DOMAIN Registry
        /\ stream_log[i].state = "ended" => ToolCallsOf(stream_log[i].chunks) # << >>

ScenarioStreams == << <<WeatherCall>>, <<TextChunk>> >>

ScenarioEvents ==
    << EvStreamStart(MessageId),
       EvStepStart(0),
       EvToolCallStart("call_w", "get_weather"),
       EvToolInputReady("call_w", Dict("city:SF")),
       EvToolOutput("call_w", Dict("temperature:72")),
       EvStepFinish(0, "tool_calls", EmptyUsage),
       EvStepStart(1),
       EvTextDelta(<<"It's 72F">>),
       EvStepFinish(1, "stop", EmptyUsage),
       EvStreamEnd("stop", ZeroUsage) >>

\* C1: with a provider that emits the get_weather call on step 0 and only text on
\* step 1, and no collaborator failing, the finished turn has yielded exactly
\* stream_start, step_start(0), tool_call_start, tool_input_ready, tool_output,
\* step_finish(0, tool_calls), step_start(1), text_delta, step_finish(1, stop),
\* stream_end(stop, usage).
C1_AgentLoopScenario ==
    (Done /\ fault = "none" /\ max_steps >= 2 /\ stream_log # << >>
          /\ FollowsScript(ScenarioStreams))
        => events = ScenarioEvents

RECURSIVE ToolCallCount(_, _, _)
\* tool_call chunks of the streams i..last
ToolCallCount(log, i, last) ==
    IF i > last \/ i > Len(log) THEN 0
    ELSE Len(ToolCallsOf(log[i].chunks)) + ToolCallCount(log, i + 1, last)

\* C2: with a provider that returns a tool call on every step, and no collaborator
\* failing, the finished turn has run exactly max_steps steps, has called
\* ToolRegistry.execute only in the steps 0..max_steps-2, its last step event is
\* step_finish(max_steps-1, stop), and the calls of the last step are announced but
\* have no tool_output and no part.
C2_StepBudgetBoundary ==
    (Done /\ fault = "none" /\ stream_log # << >> /\ AlwaysToolCall)
        => /\ Len(StepStarts) = max_steps
           /\ \A k \in 1..Len(execute_log) : execute_log[k].step <= max_steps - 2
           /\ StepFinishes # << >>
           /\ StepFinishes[Len(StepFinishes)].step = max_steps - 1
           /\ StepFinishes[Len(StepFinishes)].finish_reason = "stop"
           /\ Len(EventsOfType("tool_call_start"))
                  = ToolCallCount(stream_log, 1, max_steps)
           /\ Len(EventsOfType("tool_input_ready"))
                  = ToolCallCount(stream_log, 1, max_steps)
           /\ Len(ToolOutputs) = ToolCallCount(stream_log, 1, max_steps - 1)
           /\ Len(PartsOfType(accumulated_parts, "tool_call"))
                  = ToolCallCount(stream_log, 1, max_steps - 1)
           /\ Len(PartsOfType(accumulated_parts, "tool_result"))
                  = ToolCallCount(stream_log, 1, max_steps - 1)

\* C3: the generator raises to its consumer only before stream_start; every
\* exception behind stream_start (a collaborator failing, the TypeError of the await
\* of wrap_stream, the KeyError of execute) has become exactly one error event, which
\* is the last event of the turn: no stream_end and no other event follows it.
C3_ErrorIsTerminal ==
    /\ pc = "raised" => events = << >>
    /\ Len(EventsOfType("error")) <= 1
    /\ \A i \in 1..Len(events) :
           events[i].type = "error" => i = Len(events) /\ pc = "error"
    /\ (\/ fault \notin {"none", "save_user"}
        \/ Len(execute_log) > Len(ToolOutputs)
        \/ (stream_log # << >> /\ stream_log[Len(stream_log)].state = "unread")
        \/ pc = "error")
           => /\ pc = "error"
              /\ events # << >>
              /\ LastEvent.type = "error"
              /\ EventsOfType("stream_end") = << >>

\* an exception raised in the middle of the loop, behind a tool execution
C3_Witness ==
    /\ pc = "error"
    /\ fault = "rebuild"
    /\ ToolOutputs # << >>
    /\ LastEvent.type = "error"

\* position of the last step_start or step_finish before position i, 0 without one
LastStepEventBefore(i) ==
    LET S == {j \in 1..(i - 1) : events[j].type \in {"step_start", "step_finish"}}
    IN IF S = {} THEN 0 ELSE CHOOSE j \in S : \A k \in S : k <= j

StepContentTypes == {"text_delta", "tool_call_start", "tool_input_ready", "tool_output"}

\* C4: the steps are bracketed.  A step_start is the first step event or directly
\* follows (among the step events) the step_finish of the step before it; a
\* step_finish closes the open step_start of the same number; stream_end comes when
\* the last step is closed; text_delta, tool_call_start, tool_input_ready and
\* tool_output lie between the step_start and the step_finish of a step.
C4_StepsBracketed ==
    \A i \in 1..Len(events) :
        LET j == LastStepEventBefore(i)
            e == events[i]
        IN /\ e.type = "step_start"
                => \/ j = 0
                   \/ events[j].type = "step_finish" /\ events[j].step + 1 = e.step
           /\ e.type = "step_finish"
                => j > 0 /\ events[j].type = "step_start" /\ events[j].step = e.step
           /\ e.type = "stream_end"
                => j > 0 /\ events[j].type = "step_finish"
           /\ e.type \in StepContentTypes
                => j > 0 /\ events[j].type = "step_start"

\* a finished turn of two steps or more with text and a tool output
C4_Witness ==
    /\ pc = "stream_end"
    /\ Len(StepStarts) >= 2
    /\ Len(StepFinishes) = Len(StepStarts)
    /\ EventsOfType("text_delta") # << >>
    /\ ToolOutputs # << >>

\* C5: the step numbers of the step_start events of a turn are 0, 1, 2, ... without
\* gap or repetition, each below the configured max_steps (the default when the
\* argument is None).
C5_StepCounter ==
    \A k \in 1..Len(StepStarts) :
        /\ StepStarts[k].step = k - 1
        /\ StepStarts[k].step < max_steps

\* the step budget is used up: max_steps = 3 and three steps were started
C5_Witness ==
    /\ cfg.max_steps = 3
    /\ Len(StepStarts) = 3
    /\ StepStarts[3].step = 2

RECURSIVE SumUsage(_, _, _)
\* the sum of one field of the usage dicts of the step_finish events from i on; a
\* missing field (the empty dict) counts 0
SumUsage(finishes, i, field) ==
    IF i > Len(finishes) THEN 0
    ELSE finishes[i].usage[field] + SumUsage(finishes, i + 1, field)

UsageFields == {"prompt_tokens", "completion_tokens"}

\* C6: in a turn that has reached stream_end, the usage of stream_end and the usage
\* stored in the assistant message's metadata are, field by field, the sum of the
\* usages of the turn's step_finish events.
C6_UsageIsSumOfSteps ==
    pc = "stream_end"
        => \A f \in UsageFields :
               /\ LastEvent.usage[f] = SumUsage(StepFinishes, 1, f)
               /\ db[Len(db)].metadata.usage[f] = SumUsage(StepFinishes, 1, f)

\* every tool_call part is answered by a later tool_result part of the same id, and
\* there are as many results as calls
PartsMatched(parts) ==
    /\ \A i \in 1..Len(parts) :
           parts[i].type = "tool_call"
               => \E j \in (i + 1)..Len(parts) :
                      /\ parts[j].type = "tool_result"
                      /\ parts[j].tool_call_id = parts[i].tool_call_id
    /\ Len(PartsOfType(parts, "tool_call")) = Len(PartsOfType(parts, "tool_result"))

\* every tool call of an assistant message is answered by a later tool-role message
\* of the same tool_call_id
MessagesMatched(messages) ==
    \A i \in 1..Len(messages) :
        (messages[i].role = "assistant" /\ "tool_calls" \in DOMAIN messages[i])
            => \A k \in 1..Len(messages[i].tool_calls) :
                   \E j \in (i + 1)..Len(messages) :
                       /\ messages[j].role = "tool"
                       /\ messages[j].tool_call_id = messages[i].tool_calls[k].id

\* C7: in every message list sent to the provider, in the rebuilt params and in the
\* parts persisted at the end of the turn, each tool call has its tool result with
\* the same tool_call_id, and the assistant message carrying a tool call is followed
\* by a tool-role message with that id.
C7_ToolCallsMatched ==
    /\ \A k \in 1..Len(provider_calls) : MessagesMatched(provider_calls[k])
    /\ MessagesMatched(params.messages)
    /\ pc = "step_finish_tool_calls" => PartsMatched(accumulated_parts)
    /\ \A k \in 1..Len(db) : db[k].role = "assistant" => PartsMatched(db[k].parts)

\* a second provider call whose messages carry a tool call, and the persisted parts
C7_Witness ==
    /\ pc = "stream_end"
    /\ Len(provider_calls) >= 2
    /\ \E i \in 1..Len(provider_calls[2]) :
           /\ provider_calls[2][i].role = "assistant"
           /\ "tool_calls" \in DOMAIN provider_calls[2][i]
    /\ PartsOfType(db[Len(db)].parts, "tool_call") # << >>

RaisingTool(name) == name \in DOMAIN Registry /\ Registry[name].raises

ResultParts == PartsOfType(accumulated_parts, "tool_result")

\* C8: a registered tool whose executor raises gets the tool_output {error: message}
\* and the tool_result part with that result; its failure never ends the turn (only
\* the call of an unregistered tool leaves execute by an exception); every call of a
\* dispatched step is executed, and a turn that executed only registered tools, no
\* collaborator failing, ends with stream_end.
C8_FailingToolContained ==
    /\ \A k \in 1..Len(execute_log) :
           RaisingTool(execute_log[k].tool_name)
               => /\ Len(ToolOutputs) >= k
                  /\ ToolOutputs[k].output = Dict("error:boom")
    /\ \A k \in 1..Len(ResultParts) :
           /\ k <= Len(ToolOutputs)
           /\ ResultParts[k].result = ToolOutputs[k].output
           /\ ResultParts[k].tool_call_id = ToolOutputs[k].tool_call_id
    /\ pc # "tool_output" /\ Len(execute_log) = Len(ToolOutputs)
           => Len(ResultParts) = Len(ToolOutputs)
    /\ (pc = "error" /\ Len(execute_log) > Len(ToolOutputs))
           => execute_log[Len(execute_log)].tool_name \notin DOMAIN Registry
    /\ pc = "step_finish_tool_calls"
           => Len(SelectSeq(execute_log, LAMBDA x : x.step = step)) = Len(tool_calls)
    /\ (/\ Done
        /\ fault = "none"
        /\ execute_log # << >>
        /\ \A k \in 1..Len(execute_log) : execute_log[k].tool_name \in DOMAIN Registry)
           => pc = "stream_end"

\* the failing tool is followed by another tool call of the same step and by another
\* step, and the turn ends with stream_end
C8_Witness ==
    /\ pc = "stream_end"
    /\ Len(execute_log) >= 2
    /\ RaisingTool(execute_log[1].tool_name)
    /\ execute_log[2].step = execute_log[1].step
    /\ Len(StepStarts) >= 2
    /\ ToolOutputs[1].output = Dict("error:boom")

\* C9: the call of an unregistered tool gets a tool_output with a structured error
\* and does not end the turn with an error event.
C9_UnknownToolContained ==
    \A k \in 1..Len(execute_log) :
        execute_log[k].tool_name \notin DOMAIN Registry
            => /\ Len(ToolOutputs) >= k
               /\ ToolOutputs[k].output.t = "dict"
               /\ pc # "error"

\* GuardrailsMiddleware is in the pipeline and the user message matches a
\* blocked-input pattern
BlockedTurn ==
    /\ \E i \in 1..Len(cfg.middleware) : cfg.middleware[i] = "guardrails"
    /\ \E k \in 1..Len(cfg.user_text) : MatchesBlockedInput(cfg.user_text[k])

\* C10: when a user message matches a blocked-input pattern and the guardrails
\* middleware is in the pipeline, the turn is aborted at transform_params time and
\* provider.stream is never invoked: no stream of the provider is ever read.
C10_InputGuardrail ==
    BlockedTurn => \A i \in 1..Len(stream_log) : stream_log[i].state = "unread"

----------------------------------------------------------------------------
(* Claims about MiddlewarePipeline, under PipelineSpec *)

CalledMiddleware == [k \in 1..Len(hook_calls) |-> hook_calls[k].middleware]
CallsOf(hook) == \A k \in 1..Len(hook_calls) : hook_calls[k].hook = hook
RaisedCalls == SelectSeq(hook_calls, LAMBDA c : c.raised)

\* the params the pipeline passed on behind the k-th hook: those given to the next
\* hook, or those the pipeline call returned
PassedOn(k) == IF k < Len(hook_calls) THEN hook_calls[k + 1].params ELSE hook_params

\* C11: when pipeline.transform_params has been called, it has returned normally,
\* every middleware's transform_params was invoked, every failure was logged, and
\* behind a hook that raised the params given to that hook were passed on unchanged.
C11_TransformParamsBestEffort ==
    /\ hook_pc # "raised"
    /\ hook_pc = "transformed"
        => /\ CallsOf("transform_params")
           /\ CalledMiddleware = middleware
           /\ hook_logged = [k \in 1..Len(RaisedCalls) |->
                                 LogLine(RaisedCalls[k].middleware, "transform_params")]
           /\ \A k \in 1..Len(hook_calls) :
                  hook_calls[k].raised => PassedOn(k) = hook_calls[k].params

\* a middleware raised, and a later middleware ran and changed the params
C11_Witness ==
    /\ hook_pc = "transformed"
    /\ \E k \in 1..(Len(hook_calls) - 1) :
           /\ hook_calls[k].raised
           /\ PassedOn(k + 1) # hook_calls[k + 1].params

\* C12: transform_params and before_generate invoke the hook of every middleware of
\* the pipeline once, first to last; after_generate invokes it once, last to first;
\* also when an earlier hook raised.
C12_PipelineOrdering ==
    /\ hook_pc = "transformed"
        => CallsOf("transform_params") /\ CalledMiddleware = middleware
    /\ hook_pc \in {"generating", "has_result"}
        => CallsOf("before_generate") /\ CalledMiddleware = middleware
    /\ hook_pc = "generated"
        => CallsOf("after_generate") /\ CalledMiddleware = Reversed(middleware)

\* after_generate of three middleware, the first invoked (the last of the list) raised
C12_Witness ==
    /\ hook_pc = "generated"
    /\ Len(middleware) = 3
    /\ Len(hook_calls) = 3
    /\ hook_calls[1].raised
    /\ hook_calls[1].middleware = middleware[3]
    /\ hook_calls[3].middleware = middleware[1]

\* what the wrapper of the i-th middleware yielded: what the wrapper of the
\* middleware before it received, or what the caller received
OutputOf(i) == IF i = 1 THEN received ELSE layers[i - 1].seen

\* `out` is `seen` chunk by chunk, except that the last chunk seen may have been
\* replaced by the notice, and nothing seen later was yielded
YieldedFrom(out, seen, replaces) ==
    /\ Len(out) <= Len(seen)
    /\ \A k \in 1..Len(out) :
           \/ out[k] = seen[k]
           \/ replaces /\ out[k] = FilteredNotice /\ k = Len(seen)

\* C13: the wrapper of the last middleware receives the chunks of the raw provider
\* stream; the wrapper of every other middleware receives exactly what the wrapper of
\* the middleware behind it yielded, and the caller what the wrapper of the first
\* middleware yielded: a chunk a wrapper replaced or did not yield is seen by no
\* wrapper outside it and not by the caller.
C13_WrapStreamNesting ==
    hook_pc \in {"streaming", "stream_ended", "stream_raised"}
        => /\ Len(layers) = Len(middleware)
           /\ IF middleware = << >> THEN received = raw_chunks
              ELSE layers[Len(layers)].seen = raw_chunks
           /\ \A i \in 1..Len(layers) :
                  /\ YieldedFrom(OutputOf(i), layers[i].seen,
                                 middleware[i] = "guardrails")
                  /\ (layers[i].status = "open" /\ hook_pc = "streaming")
                         => Len(OutputOf(i)) = Len(layers[i].seen)
           /\ \A j \in 1..Len(layers) : \A k \in 1..Len(layers[j].seen) :
                  (Len(OutputOf(j)) < k \/ OutputOf(j)[k] # layers[j].seen[k])
                      => /\ \A i \in 1..(j - 1) :
                                Len(layers[i].seen) >= k
                                    => layers[i].seen[k] # layers[j].seen[k]
                         /\ Len(received) >= k => received[k] # layers[j].seen[k]

\* three wrappers, the innermost replaced the second chunk by the notice: the
\* outermost wrapper and the caller have seen the notice, not the chunk
C13_Witness ==
    /\ hook_pc = "stream_ended"
    /\ Len(middleware) = 3
    /\ middleware[3] = "guardrails"
    /\ Len(raw_chunks) = 2
    /\ raw_chunks[2] = LongBlocked
    /\ layers[1].seen = <<raw_chunks[1], FilteredNotice>>
    /\ received = layers[1].seen

\* a wrapper raised by itself while the stream was consumed
WrapperFailed == \E i \in 1..Len(layers) : layers[i].status = "failed"

\* C14: when the wrap_stream of a middleware raises while the wrapped stream is
\* consumed, the failure is logged and suppressed: the wrapped stream does not raise
\* to its consumer (for ChatService: no error event ends the turn).
C14_StreamingFaultIsolated ==
    WrapperFailed
        => /\ hook_pc # "stream_raised"
           /\ \E k \in 1..Len(hook_logged) : hook_logged[k].hook = "wrap_stream"

GuardrailsLayers == {i \in 1..Len(layers) : middleware[i] = "guardrails"}

NoticesIn(out) == Len(SelectSeq(out, LAMBDA c : c = FilteredNotice))

\* C15: whenever the text accumulated by the guardrails wrapper matches a
\* blocked-output pattern, the wrapper has yielded the notice in place of the chunk
\* it received last, exactly once, and nothing after it.
C15_OutputGuardrail ==
    \A i \in GuardrailsLayers :
        MatchesBlockedOutput(layers[i].accumulated)
            => /\ Len(OutputOf(i)) = Len(layers[i].seen)
               /\ OutputOf(i) # << >>
               /\ OutputOf(i)[Len(OutputOf(i))] = FilteredNotice
               /\ NoticesIn(OutputOf(i)) = 1

\* C20: no cache lookup and no cache write is made for params with tools, and
\* behind transform_params such params carry neither _cache_hit nor _cache_key.
C20_ToolsBypassCache ==
    /\ \A k \in 1..Len(cache_ops) : ~cache_ops[k].tools
    /\ (hook_pc \in {"transformed", "generating", "has_result", "generated"}
            /\ hook_params.tools)
           => ~HasKey(hook_params, "_cache_hit") /\ ~HasKey(hook_params, "_cache_key")

\* the second generation has tools and the messages of the first one, which was
\* cached; its result could be cached; the cache was neither read nor written for it
C20_Witness ==
    /\ hook_pc = "generated"
    /\ requests_made = 2
    /\ \E i \in 1..Len(middleware) : middleware[i] = "cache"
    /\ hook_params.tools
    /\ hook_result = GenerationResult(<<"hi">>, << >>)
    /\ \E e \in django_cache : e.key = MakeKey(hook_params)
    /\ Len(cache_ops) = 2

\* the provider calls the caller made while its params carried a cache hit
HitCalls == {i \in 1..Len(wire_calls) : HasKey(wire_calls[i].params, "_cache_hit")}

\* C21: of two successive generations with the same model id and messages and no
\* tools, the second made while the entry of the first is unexpired, only the first
\* contacts the provider: a generation whose params carry the cache hit makes no
\* provider call.
C21_RepeatServedFromCache == HitCalls = {}

\* the result of the generation in hand can be cached
Cacheable(result) ==
    /\ result # None
    /\ result.content # << >>
    /\ result.tool_calls = << >>

\* pipeline.after_generate runs in this step, in a pipeline with the cache middleware
CacheAfterGenerateStep ==
    /\ hook_pc = "has_result"
    /\ hook_pc' # "has_result"
    /\ \E i \in 1..Len(middleware) : middleware[i] = "cache"

\* C22: CacheMiddleware.after_generate writes the cache if and only if
\* transform_params stashed a key for this call and the result has content and no
\* tool calls; it writes the content under that key, the key of the call's model id
\* and messages, with the timeout of 3600 s, and nothing else; a call that hit an
\* entry leaves the cache as it is.
C22_CacheWrittenOnMiss ==
    [][CacheAfterGenerateStep =>
          LET stashed == HasKey(hook_params, "_cache_key")
              writes == stashed /\ Cacheable(hook_result)
          IN /\ (cache_ops' # cache_ops) = writes
             /\ (django_cache' # django_cache) => writes
             /\ writes =>
                  /\ hook_params["_cache_key"] = MakeKey(hook_params)
                  /\ ~hook_params.tools
                  /\ cache_ops' = Append(cache_ops,
                          CacheOp("set", MakeKey(hook_params), hook_params))
                  /\ django_cache' =
                          {e \in django_cache : e.key # MakeKey(hook_params)}
                              \cup {[key |-> MakeKey(hook_params),
                                     content |-> Str(hook_result.content),
                                     timeout |-> 3600]}
             /\ HasKey(hook_params, "_cache_hit") =>
                  /\ ~stashed
                  /\ django_cache' = django_cache]_vars

\* the second generation has missed an expired entry and has written it again
C22_Witness ==
    /\ hook_pc = "generated"
    /\ requests_made = 2
    /\ Len(cache_ops) = 4
    /\ cache_ops[2].op = "set"
    /\ cache_ops[4] = cache_ops[2]
    /\ \E e \in django_cache : e.key = cache_ops[4].key /\ e.timeout = 3600

ScratchKeys == {"_cache_key", "_cache_hit", "_log_start_time"}

\* C23: the provider is called with the messages, the model id and the tools of
\* params and with nothing else, whatever scratch keys the middleware have put
\* into params; when pipeline.after_generate has run, params holds no scratch key.
C23_ScratchFieldsStayPrivate ==
    /\ \A i \in 1..Len(wire_calls) :
          LET w == wire_calls[i]
          IN /\ DOMAIN w.kwargs = {"messages", "model", "tools"}
             /\ w.kwargs.messages = w.params.messages
             /\ w.kwargs.model = w.params.model_id
             /\ w.kwargs.tools = w.params.tools
    /\ hook_pc = "generated" => DOMAIN hook_params \cap ScratchKeys = {}

\* two generations behind the logging and the cache middleware: the provider was
\* called while params held _cache_key and _log_start_time, then while it held
\* _cache_hit and _log_start_time, and after_generate has run
C23_Witness ==
    /\ hook_pc = "generated"
    /\ Len(wire_calls) = 2
    /\ {"_cache_key", "_log_start_time"} \subseteq DOMAIN wire_calls[1].params
    /\ {"_cache_hit", "_log_start_time"} \subseteq DOMAIN wire_calls[2].params

----------------------------------------------------------------------------
(* Claims about cancellation and persistence *)

MessagesOfRole(role) == {i \in 1..Len(db) : db[i].role = role}

\* the loop over stream_message was left because the stop flag was seen
WasCancelled == consumer_pc \in {"cancelled", "returned"} /\ stop_requested
                    /\ \E i \in 1..Len(sent) : sent[i] = Cancelled

C25_OneUserOneAssistant ==
    pc \in {"stream_end", "error"} =>
        /\ Cardinality(MessagesOfRole("user")) = 1
        /\ Cardinality(MessagesOfRole("assistant")) = 1

----------------------------------------------------------------------------
(* Claims about MessageConverter, under ConverterSpec *)

\* C26: the tool_call parts rebuilt by from_model_response from the assistant
\* message of to_model_messages are the stored tool_call parts: the same ids, names
\* and args, in the same order, also for args stored as a str.
C26_RoundTrip ==
    conv_pc = "rebuilt" =>
        PartsOfType(rebuilt.parts, "tool_call") = PartsOfType(stored.parts, "tool_call")

\* every tool_result part of the stored message has its tool_call part before it
ResultsFollowCalls ==
    \A i \in 1..Len(stored.parts) :
        stored.parts[i].type = "tool_result" => stored.parts[i].tool_call_id # "call_0"

\* the first call message whose text content holds the text of part j
MessageWithText(j) ==
    LET holds == {m \in 1..Len(model_messages) :
                    /\ model_messages[m].content.t = "str"
                    /\ \E k \in 1..Len(model_messages[m].content.v) :
                          model_messages[m].content.v[k] = stored.parts[j].text[1]}
    IN IF holds = {} THEN 0 ELSE CHOOSE m \in holds : \A n \in holds : m <= n

\* the tool-role messages that answer the call of part i
ToolMessagesFor(i) ==
    {m \in 1..Len(model_messages) :
        /\ model_messages[m].role = "tool"
        /\ model_messages[m].tool_call_id = stored.parts[i].tool_call_id}

\* C27: for an assistant message whose parts interleave texts, tool calls and tool
\* results, every tool-role message directly answers an assistant message holding
\* its tool call (only tool-role messages between them), and no text of a later
\* part stands before the tool-role message of an earlier tool result.
C27_PartOrderPreserved ==
    (conv_pc = "converted" /\ stored.role = "assistant" /\ ResultsFollowCalls) =>
        /\ \A m \in 1..Len(model_messages) :
              model_messages[m].role = "tool" =>
                \E a \in 1..(m - 1) :
                    /\ model_messages[a].role = "assistant"
                    /\ "tool_calls" \in DOMAIN model_messages[a]
                    /\ \E c \in 1..Len(model_messages[a].tool_calls) :
                          model_messages[a].tool_calls[c].id
                              = model_messages[m].tool_call_id
                    /\ \A b \in (a + 1)..(m - 1) : model_messages[b].role = "tool"
        /\ \A i \in 1..Len(stored.parts) : \A j \in (i + 1)..Len(stored.parts) :
              (stored.parts[i].type = "tool_result" /\ stored.parts[j].type = "text")
                  => /\ MessageWithText(j) # 0
                     /\ \A m \in ToolMessagesFor(i) : m < MessageWithText(j)

ImagesOf(msg) == SelectSeq(msg.attachments, LAMBDA a : a.is_image)

\* C28: a stored user message with a text or an image attachment becomes exactly
\* one user call message; its content is a str without attachments, a block list
\* only of more than one block, and holds an image block for every image
\* attachment.
C28_UserMessageContent ==
    (conv_pc = "converted" /\ stored.role = "user"
        /\ (ExtractText(stored.parts) # << >> \/ ImagesOf(stored) # << >>)) =>
        /\ Len(model_messages) = 1
        /\ model_messages[1].role = "user"
        /\ stored.attachments = << >> => model_messages[1].content.t = "str"
        /\ model_messages[1].content.t = "blocks"
              => Len(model_messages[1].content.v) > 1
        /\ \A i \in 1..Len(ImagesOf(stored)) :
              /\ model_messages[1].content.t = "blocks"
              /\ \E b \in 1..Len(model_messages[1].content.v) :
                    model_messages[1].content.v[b] =
                        [type |-> "image_url", image_url |-> ImagesOf(stored)[i].url]

----------------------------------------------------------------------------
(* Claims about RateLimitMiddleware, under LimiterSpec and LimiterFairSpec *)

RequestLimit == limits.rpm * OneToken
TokenLimit == limits.tpm * OneToken

\* C16: the request bucket stays within [0, requests_per_minute] in every reachable
\* state, and every before_generate that returns has found at least one request
\* token in the refilled bucket and has left the refilled value less exactly one.
C16_RequestBucket ==
    /\ [](0 <= request_tokens /\ request_tokens <= RequestLimit)
    /\ [][admitted' # admitted
            => /\ refill_seen'[1].after.request_tokens >= OneToken
               /\ request_tokens' = refill_seen'[1].after.request_tokens - OneToken]_vars

\* more calls have returned than the bucket holds: one has waited, and the bucket
\* is empty
C16_Witness ==
    /\ Len(admitted) > limits.rpm
    /\ admitted[Len(admitted)] > 0
    /\ request_tokens = 0

\* C17: every refill that observes e elapsed seconds leaves the request bucket at
\* min(rpm, old + e*rpm/60) and the token bucket at min(tpm, old + e*tpm/60); both
\* buckets stay at or below their limits; with 60 requests per minute one second
\* refills a request token, whatever the token bucket holds.
C17_RefillFormula ==
    /\ request_tokens <= RequestLimit
    /\ token_tokens <= TokenLimit
    /\ \A k \in 1..Len(refill_seen) :
           LET r == refill_seen[k]
           IN /\ r.elapsed >= 0
              /\ r.after.request_tokens
                     = Min(RequestLimit, r.before.request_tokens + r.elapsed * limits.rpm)
              /\ r.after.token_tokens
                     = Min(TokenLimit, r.before.token_tokens + r.elapsed * limits.tpm)
    /\ \A old \in 0..59, held \in {0 - OneToken, 0, OneToken} :
           Refill([request_tokens |-> old * OneToken, token_tokens |-> held,
                   last_refill |-> now],
                  [rpm |-> 60, tpm |-> limits.tpm], now + 1).request_tokens
               >= (old + 1) * OneToken

\* a refill after some time that caps the request bucket and replenishes a negative
\* token bucket without reaching its limit
C17_Witness ==
    /\ refill_seen # << >>
    /\ refill_seen[1].elapsed > 0
    /\ refill_seen[1].before.request_tokens + refill_seen[1].elapsed * limits.rpm
           > RequestLimit
    /\ refill_seen[1].after.request_tokens = RequestLimit
    /\ refill_seen[1].before.token_tokens < 0
    /\ refill_seen[1].after.token_tokens > refill_seen[1].before.token_tokens
    /\ refill_seen[1].after.token_tokens < TokenLimit

\* C18: after_generate never blocks or delays its caller: no task is ever suspended
\* inside after_generate.
C18_AfterGenerateNeverBlocks ==
    \A t \in DOMAIN task_pc : task_pc[t] # "acquire_after"

\* C19: at most one task is inside the lock; the requests admitted between two
\* admissions t seconds apart are at most rpm + t*rpm/60; the token bucket holds
\* what the limit, the refills and every debit leave.
C19_NoLostUpdate ==
    /\ \A t, u \in DOMAIN task_pc :
           (task_pc[t] = "sleeping" /\ task_pc[u] = "sleeping") => t = u
    /\ \A t \in DOMAIN task_pc : task_pc[t] = "sleeping" => lock_owner = t
    /\ \A i, j \in 1..Len(admitted) :
           i <= j => (j - i + 1) * OneToken
                         <= RequestLimit + (admitted[j] - admitted[i]) * limits.rpm
    /\ token_tokens >= TokenLimit - debited * OneToken
    /\ token_tokens <= TokenLimit + last_refill * limits.tpm - debited * OneToken

\* one task sleeps inside before_generate, another is suspended in before_generate,
\* and tokens have been debited
C19_Witness ==
    /\ \E t, u \in DOMAIN task_pc :
           task_pc[t] = "sleeping" /\ task_pc[u] = "acquire_before"
    /\ debited > 0
    /\ admitted # << >>

\* task u gets past `async with self._lock` in this step: into the body of
\* before_generate, or through the whole of after_generate
PassesLock(u) ==
    \/ /\ task_pc[u] \in {"idle", "acquire_before"}
       /\ task_pc'[u] \in {"sleeping", "generating"}
    \/ /\ task_pc[u] \in {"generating", "acquire_after"}
       /\ task_pc'[u] = "idle"

\* C38: under LimiterFairSpec (sleeps end, the first waiter of the released lock
\* is resumed) every before_generate and every after_generate that has begun
\* returns, that is, every task is again and again outside both (before a call, or
\* generating between the two); a task sleeping inside before_generate owns the lock, and until its
\* sleep is over no other task gets past the lock in before_generate or in
\* after_generate.
C38_CallsCompleteSleeperDelays ==
    /\ \A t \in Tasks : []<>(task_pc[t] \in {"idle", "generating"})
    /\ [](\A t \in Tasks : task_pc[t] = "sleeping" => lock_owner = t)
    /\ [][\A t, u \in Tasks :
            (task_pc[t] = "sleeping" /\ u # t) => ~PassesLock(u)]_vars

\* one task sleeps for a request token past the end of the clock's range while
\* another is suspended in after_generate behind it
C38_Witness ==
    \E t, u \in Tasks :
        /\ task_pc[t] = "sleeping"
        /\ wake_at[t] > MaxTime
        /\ task_pc[u] = "acquire_after"
        /\ lock_waiters = <<u>>

----------------------------------------------------------------------------
(* Claims about the provider adapters, under OpenAISpec and AnthropicSpec *)

\* the positions in `yielded` of the tool_call chunks
YieldedCalls == {k \in 1..Len(yielded) : yielded[k].chunk.type = "tool_call"}

\* the argument fragments the deltas of one chunk carry for index i, in order
RECURSIVE ArgumentsIn(_, _, _)
ArgumentsIn(deltas, i, k) ==
    IF k > Len(deltas) THEN << >>
    ELSE (IF deltas[k].index = i THEN deltas[k].arguments ELSE << >>)
         \o ArgumentsIn(deltas, i, k + 1)

\* the concatenation, in arrival order, of the argument fragments received for
\* index i in the first n chunks
RECURSIVE FragmentsOfIndex(_, _)
FragmentsOfIndex(i, n) ==
    IF n = 0 THEN << >>
    ELSE FragmentsOfIndex(i, n - 1)
         \o (IF vendor_events[n].kind = "choice"
             THEN ArgumentsIn(vendor_events[n].tool_calls, i, 1) ELSE << >>)

FinishedWith(n, reason) ==
    vendor_events[n].kind = "choice" /\ vendor_events[n].finish_reason = reason

\* no tool_call chunk is yielded before, or at another chunk than, the one that
\* carries finish_reason "tool_calls"
EmittedOnlyOnToolCallsFinish ==
    \A k \in YieldedCalls : FinishedWith(yielded[k].at, "tool_calls")

\* at finish_reason "tool_calls" exactly one tool_call chunk is yielded per call in
\* flight, with the id and the name received and, where the concatenation of its
\* fragments is a JSON text, the decoding of that text as args
OnePerInFlightCall ==
    \A n \in 1..Len(vendor_events) :
        FinishedWith(n, "tool_calls") =>
            /\ Cardinality({k \in YieldedCalls : yielded[k].at = n})
                   = Cardinality(OpenedIndexes)
            /\ \A i \in OpenedIndexes :
                \E k \in YieldedCalls :
                    /\ yielded[k].at = n
                    /\ yielded[k].chunk.tool_call_id = VendorCallId(i)
                    /\ yielded[k].chunk.tool_name = VendorToolName(i)
                    /\ IsJsonText(FragmentsOfIndex(i, n)) =>
                           yielded[k].chunk.args = JsonLoads(FragmentsOfIndex(i, n))

\* when stream() has returned, every call that received argument fragments has
\* been yielded exactly once
EveryCallEmittedOnce ==
    adapter_pc = "returned" =>
        \A i \in OpenedIndexes :
            FragmentsOfIndex(i, Len(vendor_events)) # << >> =>
                Cardinality({k \in YieldedCalls :
                                yielded[k].chunk.tool_call_id = VendorCallId(i)}) = 1

\* C29: OpenAIProvider.stream yields no tool_call chunk before the vendor sends
\* finish_reason "tool_calls", yields at that chunk exactly one tool_call per call
\* in flight with the id and name received and the decoding of the concatenation
\* of that index's fragments, and has yielded every call whose fragments were
\* received exactly once when the stream ends.
C29_IndexKeyedReconstruction ==
    /\ EmittedOnlyOnToolCallsFinish
    /\ OnePerInFlightCall
    /\ EveryCallEmittedOnce

\* the content_block_start that the content_block_stop at position n closes
StartOfBlock(n) ==
    CHOOSE s \in 1..(n - 1) :
        /\ vendor_events[s].type = "content_block_start"
        /\ \A m \in (s + 1)..(n - 1) : vendor_events[m].type # "content_block_start"

\* the concatenation of the input_json_delta fragments received at positions
\* from..to
RECURSIVE PartialJsonBetween(_, _)
PartialJsonBetween(from, to) ==
    IF from > to THEN << >>
    ELSE (IF /\ vendor_events[from].type = "content_block_delta"
             /\ vendor_events[from].delta.type = "input_json_delta"
          THEN vendor_events[from].delta.partial_json ELSE << >>)
         \o PartialJsonBetween(from + 1, to)

BlockStops ==
    {n \in 1..Len(vendor_events) : vendor_events[n].type = "content_block_stop"}

\* C30: AnthropicProvider.stream yields exactly one tool_call chunk per tool_use
\* block, at the content_block_stop of that block and not earlier, with the id
\* and the name of the block and the decoding of the input_json_delta fragments
\* received between its start and its stop ({} when they form no JSON text); the
\* stop of a text block yields no tool_call.
C30_BlockKeyedReconstruction ==
    /\ \A k \in YieldedCalls : yielded[k].at \in BlockStops
    /\ \A n \in BlockStops :
        LET block == vendor_events[StartOfBlock(n)].content_block
            json == PartialJsonBetween(StartOfBlock(n), n)
            at_stop == {k \in YieldedCalls : yielded[k].at = n}
        IN  IF block.type = "tool_use"
            THEN /\ Cardinality(at_stop) = 1
                 /\ \A k \in at_stop :
                     /\ yielded[k].chunk.tool_call_id = block.id
                     /\ yielded[k].chunk.tool_name = block.name
                     /\ yielded[k].chunk.args =
                            (IF IsJsonText(json) THEN JsonLoads(json) ELSE Dict(""))
                 /\ Cardinality({k \in YieldedCalls :
                                    yielded[k].chunk.tool_call_id = block.id}) = 1
            ELSE at_stop = {}

\* a tool_use block whose two fragments form a JSON text has been stopped and a
\* text block after it has been stopped as well: one call has been yielded, with
\* the decoded arguments
C30_Witness ==
    /\ adapter_pc = "anthropic"
    /\ \E n, t \in BlockStops :
        /\ n < t
        /\ vendor_events[StartOfBlock(n)].content_block.type = "tool_use"
        /\ vendor_events[StartOfBlock(t)].content_block.type = "text"
        /\ PartialJsonBetween(StartOfBlock(n), n) = <<"{", "city:SF", "}">>
        /\ \E k \in YieldedCalls :
            /\ yielded[k].at = n
            /\ yielded[k].chunk.args = Dict("city:SF")
    /\ Cardinality(YieldedCalls) = 1

\* the positions in `yielded` of the usage chunks
YieldedUsage == {k \in 1..Len(yielded) : yielded[k].chunk.type = "usage"}

\* C31: when stream() of a provider has returned, it has yielded exactly one usage
\* chunk, carrying the totals the vendor reported.
C31_UsageOncePerStream ==
    adapter_pc = "returned" =>
        /\ Cardinality(YieldedUsage) = 1
        /\ \A k \in YieldedUsage : yielded[k].chunk.usage = VendorUsageChunk.usage

----------------------------------------------------------------------------
(* Claims about the agent loop, under Spec *)

\* C32: the messages of every provider call of the turn, those of step 0 and those
\* rebuilt with the tool results for a later step, have been passed to
\* pipeline.transform_params before the call.
C32_TransformParamsEveryStep ==
    \A k \in 1..Len(provider_calls) :
        \E j \in 1..Len(transformed) : transformed[j] = provider_calls[k]

\* the tool_call_id values of the tool_call_start events of the turn, and of the
\* tool_call parts recorded for the assistant message
AnnouncedIds ==
    LET starts == EventsOfType("tool_call_start")
    IN  [k \in 1..Len(starts) |-> starts[k].tool_call_id]
RecordedIds ==
    LET parts == SelectSeq(accumulated_parts, LAMBDA p : p.type = "tool_call")
    IN  [k \in 1..Len(parts) |-> parts[k].tool_call_id]
PairwiseDistinct(ids) ==
    \A i, j \in 1..Len(ids) : i # j => ids[i] # ids[j]

\* C35: across all steps of a turn the tool_call_id values of the tool_call_start
\* events are pairwise distinct, and so are those of the tool_call parts.
C35_ToolCallIdsUnique ==
    /\ PairwiseDistinct(AnnouncedIds)
    /\ PairwiseDistinct(RecordedIds)

StepStartPositions == {k \in 1..Len(events) : events[k].type = "step_start"}
StepLast(p) ==
    LET later == {k \in StepStartPositions : k > p}
    IN  IF later = {} THEN Len(events)
        ELSE (CHOOSE k \in later : \A j \in later : k <= j) - 1
StepEvents(p) == SubSeq(events, p + 1, StepLast(p))

\* the ids of the events of one type among `evs`, in the order of the events
IdsOf(evs, type) ==
    LET chosen == SelectSeq(evs, LAMBDA e : e.type = type)
    IN  [k \in 1..Len(chosen) |-> chosen[k].tool_call_id]

\* C37: in every step a tool call is announced by tool_call_start, which
\* tool_input_ready follows at once; the tool_output events come after everything the
\* provider stream of the step caused and before step_finish; their ids are the
\* announced ids in the order of the announcements, all of them once the step has
\* finished with 'tool_calls', and none when it finished with 'stop'.
C37_ToolOutputsFollowAnnouncements ==
    \A p \in StepStartPositions :
        LET evs == StepEvents(p)
            announced == IdsOf(evs, "tool_call_start")
            outputs == IdsOf(evs, "tool_output")
        IN  /\ \A k \in 1..Len(evs) :
                /\ (evs[k].type = "tool_call_start" /\ p + k < Len(events)) =>
                       /\ k < Len(evs)
                       /\ evs[k + 1].type = "tool_input_ready"
                       /\ evs[k + 1].tool_call_id = evs[k].tool_call_id
                /\ evs[k].type = "tool_output" =>
                       /\ \E i \in 1..(k - 2) :
                           /\ evs[i].type = "tool_call_start"
                           /\ evs[i].tool_call_id = evs[k].tool_call_id
                           /\ evs[i + 1].type = "tool_input_ready"
                           /\ evs[i + 1].tool_call_id = evs[k].tool_call_id
                       /\ \A m \in (k + 1)..Len(evs) :
                           evs[m].type \in {"tool_output", "step_finish", "error"}
                /\ evs[k].type = "step_finish" =>
                       outputs = (IF evs[k].finish_reason = "tool_calls"
                                  THEN announced ELSE << >>)
            /\ IsPrefix(outputs, announced)

\* step 0 announced two calls, both were executed in the order of their
\* announcement, and the step has finished with 'tool_calls'
C37_Witness ==
    \E p \in StepStartPositions :
        LET evs == StepEvents(p)
            announced == IdsOf(evs, "tool_call_start")
        IN  /\ events[p] = EvStepStart(0)
            /\ Len(announced) = 2
            /\ announced[1] # announced[2]
            /\ IdsOf(evs, "tool_output") = announced
            /\ \E k \in 1..Len(evs) :
                   evs[k].type = "step_finish" /\ evs[k].finish_reason = "tool_calls"

----------------------------------------------------------------------------
(* Claims about start-up, under ConstructSpec and SettingsSpec *)

\* C33: constructing a built-in provider never raises, whatever the configuration
\* map lacks; what is raised is raised by the first generate or stream call.
C33_FailsAtFirstUse ==
    /\ boot_pc # "declared" => boot_pc = "raised" \/ Len(built) = 1
    /\ \A k \in 1..Len(boot_log) : boot_log[k].at = "first use"

\* a reference that can be resolved: a dotted path to a class of an importable
\* module
Resolvable(ref) ==
    /\ ref # NoRef
    /\ Len(ref.v) >= 2
    /\ \E i \in Importable : ref.v = Append(i.module, i.class)

\* the resolvable references among the first n, in list order: the position in
\* the list and the class
RECURSIVE ResolvableEntries(_, _)
ResolvableEntries(refs, n) ==
    IF n = 0 THEN << >>
    ELSE ResolvableEntries(refs, n - 1)
         \o (IF Resolvable(refs[n])
             THEN <<[entry |-> n, class |-> refs[n].v[Len(refs[n].v)]]>> ELSE << >>)

\* the call has loaded exactly these entries, in this order: as the middleware
\* list, or as the registrations that precede the built-in ones
HasLoaded(entries) ==
    IF declared[1].kind = "middleware"
    THEN built = [k \in 1..Len(entries) |-> entries[k].class]
    ELSE /\ Len(built) >= Len(entries)
         /\ SubSeq(built, 1, Len(entries))
                = [k \in 1..Len(entries) |->
                      Registered(EntryNames[entries[k].entry], entries[k].class)]
         /\ \A k \in (Len(entries) + 1)..Len(built) :
                built[k] \in {Builtins[j] : j \in 1..Len(Builtins)}

\* C34: from_settings and auto_discover return normally for every list of class
\* references, having loaded every resolvable entry in list order and skipped every
\* entry that cannot be resolved.
C34_UnresolvableSkipped ==
    boot_pc # "settings" =>
        /\ boot_pc = "returned"
        /\ HasLoaded(ResolvableEntries(declared[1].refs, Len(declared[1].refs)))

----------------------------------------------------------------------------
(* Claims about a stop racing the generator, under ConsumerSpec *)

\* the positions in `sent` of the stream_end frames with this finish_reason
SentStreamEnds(reason) ==
    {i \in 1..Len(sent) : sent[i].type = "stream_end" /\ sent[i].finish_reason = reason}

----------------------------------------------------------------------------
(* Claims about the text the guardrails wrapper lets through, under PipelineSpec *)

\* the concatenation of the text of the text_delta chunks in `out`, the notice
\* left out
RECURSIVE TextForwarded(_)
TextForwarded(out) ==
    IF out = << >> THEN << >>
    ELSE (IF Head(out).type = "text_delta" /\ Head(out) # FilteredNotice
          THEN Head(out).text ELSE << >>)
         \o TextForwarded(Tail(out))

\* C40: the text GuardrailsMiddleware.wrap_stream has forwarded, the filtered
\* notice left out, never contains a match of a blocked-output pattern, whatever
\* text deltas it received, streams of at most 100 characters included.
C40_NoBlockedOutputForwarded ==
    \A i \in GuardrailsLayers : ~MatchesBlockedOutput(TextForwarded(OutputOf(i)))

====
